---------------------------- MODULE Spec2Model ----------------------------
(***************************************************************************)
(* Model of the session actor PlannerSessionDO                             *)
(* (cloudflare-planner/worker/src/durable-object.js) together with the     *)
(* collaborators it talks to: the container's HTTP API                     *)
(* (cloudflare-planner/container/server.js), the actor's private durable   *)
(* storage and the shared plan store (R2).                                 *)
(*                                                                         *)
(* A JavaScript nullable reference is a sequence of length at most one:    *)
(* <<>> is null/undefined, <<v>> is the object v.  Every method of the     *)
(* class is an operator from the actor's fields ("this", a record) to the  *)
(* fields after the call, so that a method calling another method is the   *)
(* composition of the operators.  The hosting environment runs at most one *)
(* operation at a time on one actor; operations of different actors        *)
(* interleave, and savePlan is split at the await between reading the      *)
(* state and writing the plan store.                                       *)
(***************************************************************************)
EXTENDS Integers, Sequences, FiniteSets, TLC

VARIABLES
    sessionMetadata,    \* this.sessionMetadata, per session
    containerInstance,  \* this.containerInstance, per session
    lastActivity,       \* this.lastActivity, per session
    storage,            \* this.state.storage slot 'metadata', per session
    alarmTime,          \* the trigger set by this.state.storage.setAlarm
    getCalls,           \* calls of env.PLANNER_CONTAINER.get by this instance
    metaLoads,          \* assignments of this.sessionMetadata in this instance
    planStore,          \* env.PLANNER_STORAGE: key -> stored object
    saving,             \* a savePlan suspended between getState and put
    issued,             \* commands the container reported as successful
    now,                \* Date.now(); every operation starts one tick later
    served,             \* the session identities the gateway addresses
    budget,             \* the number of operations the environment starts
    last,               \* what the latest operation did and returned
    seqCall,            \* a call of executeCommandSequence (agent-helper.js)
    queueCall,          \* a call of the gateway's queue consumer
    gatewayCall,        \* a request to the gateway's fetch handler
    parseCall           \* a call of parsePromptWithAI (agent-helper.js)

(* the calls of the gateway worker's functions: <<>> when there is none,   *)
(* else <<c>> with the arguments, and the return value once c.done         *)
worker == <<seqCall, queueCall, gatewayCall, parseCall>>

vars == <<sessionMetadata, containerInstance, lastActivity, storage, alarmTime,
          getCalls, metaLoads, planStore, saving, issued, now, served, budget,
          last, seqCall, queueCall, gatewayCall, parseCall>>

-----------------------------------------------------------------------------
(* Bounds of the model *)

MaxOps == 4
PairMaxOps == 3
FetchMaxOps == 3
MaxSeqLen == 3
MaxBatch == 2
MaxWords == 2
MaxTextLen == 3

Sessions == {"A", "B"}
Plans == {"p1", "p2"}
States == {"s1", "s2"}
Params == {"x1", "x2"}
Commands == {"ADD_ITEM", "INVALID"}

(* Program constants *)

SleepAfterMs == 60000
AlarmIntervalMs == 300000

KnownCommands == {"ADD_ITEM", "ADD_WALL", "MODE_2D", "MODE_3D", "LOAD_PROJECT"}

NoPlan == "null"
NoTime == -1

-----------------------------------------------------------------------------
(* Responses of the container *)

Thrown == [kind |-> "throw", success |-> FALSE, data |-> "network"]
Json(ok, d) == [kind |-> "json", success |-> ok, data |-> d]

(* a command handler that passes a name it does not know on as an action *)
commandHandler_passesUnknown(command, pageOk) ==
    IF pageOk THEN [resp |-> Json(TRUE, "result"), dispatched |-> 1]
    ELSE [resp |-> Json(FALSE, "error"), dispatched |-> 1]

(* app.post('/command') of the container: the response and the number of   *)
(* actions handed to the controlled application; pageOk tells whether the  *)
(* dispatch in the page succeeds                                           *)
commandHandler(command, pageOk) ==
    IF command \notin KnownCommands
    THEN [resp |-> Json(FALSE, "unknown"), dispatched |-> 0]
    ELSE IF pageOk THEN [resp |-> Json(TRUE, "result"), dispatched |-> 1]
    ELSE [resp |-> Json(FALSE, "error"), dispatched |-> 1]

CommandResponses(command) ==
    {commandHandler(command, pageOk).resp : pageOk \in BOOLEAN}

StateResponses == {Json(TRUE, st) : st \in States} \cup {Json(FALSE, "error")}

ActionResponses == {Json(TRUE, "result"), Json(FALSE, "error")}

NoResult == Json(FALSE, "none")

-----------------------------------------------------------------------------
(* The actor's fields ("this", with the bindings of this.env and          *)
(* this.state) and the effects of the running operation                    *)

Self(s) ==
    [ id |-> s,
      sessionMetadata |-> sessionMetadata[s],
      containerInstance |-> containerInstance[s],
      lastActivity |-> lastActivity[s],
      storage |-> storage[s],
      alarmTime |-> alarmTime[s],
      getCalls |-> getCalls[s],
      metaLoads |-> metaLoads[s],
      planStore |-> planStore,
      reads |-> 0, writes |-> 0, gets |-> 0, forwards |-> 0, planPuts |-> 0,
      handle |-> <<>>, sent |-> <<>>,
      outcome |-> "return", error |-> "none", result |-> NoResult ]

Throw(t, e) == [t EXCEPT !.outcome = "throw", !.error = e]
Return(t, r) == [t EXCEPT !.outcome = "return", !.result = r]

DefaultMetadata ==
    [ createdAt |-> now, planId |-> NoPlan, userId |-> NoPlan,
      modifications |-> <<>>, lastSaved |-> NoTime ]

(* initialize writing the metadata it created to the durable slot *)
initialize_persists(t) ==
    IF t.sessionMetadata # <<>> THEN t
    ELSE IF t.storage # <<>>
    THEN [t EXCEPT !.sessionMetadata = t.storage,
                   !.reads = @ + 1,
                   !.metaLoads = @ + 1]
    ELSE [t EXCEPT !.sessionMetadata = <<DefaultMetadata>>,
                   !.storage = <<DefaultMetadata>>,
                   !.reads = @ + 1,
                   !.writes = @ + 1,
                   !.metaLoads = @ + 1]

(* initialize setting the first trigger when it creates the metadata *)
initialize_schedules(t) ==
    IF t.sessionMetadata # <<>> THEN t
    ELSE [t EXCEPT !.sessionMetadata =
                       IF t.storage # <<>> THEN t.storage
                       ELSE <<DefaultMetadata>>,
                   !.alarmTime = <<now + AlarmIntervalMs>>,
                   !.reads = @ + 1,
                   !.metaLoads = @ + 1]

(* initialize without the early return *)
initialize_reloads(t) ==
    [t EXCEPT !.sessionMetadata =
                  IF t.storage # <<>> THEN t.storage ELSE <<DefaultMetadata>>,
              !.reads = @ + 1,
              !.metaLoads = @ + 1]

initialize(t) ==
    IF t.sessionMetadata # <<>> THEN t
    ELSE [t EXCEPT !.sessionMetadata =
                       IF t.storage # <<>> THEN t.storage
                       ELSE <<DefaultMetadata>>,
                   !.reads = @ + 1,
                   !.metaLoads = @ + 1]

(* getContainer with the call of sleepAfter after the if instead of in it *)
getContainer_reconfigures(t) ==
    IF t.containerInstance = <<>>
    THEN [t EXCEPT !.containerInstance =
                       << [id |-> t.id, sleepAfter |-> SleepAfterMs,
                           sleepAfterCalls |-> 1,
                           serial |-> t.getCalls + 1] >>,
                   !.getCalls = @ + 1,
                   !.gets = @ + 1]
    ELSE [t EXCEPT !.containerInstance[1].sleepAfterCalls = @ + 1]

(* getContainer without the memo check *)
getContainer_noMemo(t) ==
    [t EXCEPT !.containerInstance =
                  << [id |-> t.id, sleepAfter |-> SleepAfterMs,
                      sleepAfterCalls |-> 1, serial |-> t.getCalls + 1] >>,
              !.getCalls = @ + 1,
              !.gets = @ + 1]

getContainer(t) ==
    IF t.containerInstance = <<>>
    THEN [t EXCEPT !.containerInstance =
                       << [id |-> t.id, sleepAfter |-> SleepAfterMs,
                           sleepAfterCalls |-> 1,
                           serial |-> t.getCalls + 1] >>,
                   !.getCalls = @ + 1,
                   !.gets = @ + 1]
    ELSE t

(* JSON.stringify and response.json() / plan.json(): a text that is not    *)
(* the value, and the value read back from it                              *)
stringify(v) == <<"json", v>>
parse(text) == text[2]

(* the request bodies; the action and the script are opaque to the actor   *)
CommandBody(command, params) ==
    <<stringify([command |-> command, params |-> params])>>
ActionBody == <<stringify("action")>>
ScriptBody == <<stringify("script")>>
NoBody == <<>>

(* const container = await this.getContainer();                            *)
(* const response = await container.fetch(...); await response.json()      *)
(* a forward that tries a second time when the first attempt failed *)
containerFetch_retries(t, path, body, resp) ==
    LET c == getContainer(t)
        f == [c EXCEPT !.forwards = @ + 1, !.handle = c.containerInstance,
                       !.sent = Append(@, [path |-> path, body |-> body])]
        f2 == [f EXCEPT !.forwards = @ + 1,
                        !.sent = Append(@, [path |-> path, body |-> body])]
    IN  IF resp.kind = "throw" THEN Throw(f2, "TransportFailure")
        ELSE Return(f, resp)

containerFetch(t, path, body, resp) ==
    LET c == getContainer(t)
        f == [c EXCEPT !.forwards = @ + 1, !.handle = c.containerInstance,
                       !.sent = Append(@, [path |-> path, body |-> body])]
    IN  IF resp.kind = "throw" THEN Throw(f, "TransportFailure")
        ELSE Return(f, resp)

(* await this.state.storage.put('metadata', this.sessionMetadata) *)
storagePut(t) ==
    [t EXCEPT !.storage = t.sessionMetadata, !.writes = @ + 1]

(* unshift instead of push *)
pushModification_unshift(t, command, params) ==
    [t EXCEPT !.sessionMetadata[1].modifications =
                  <<[timestamp |-> now, command |-> command,
                     params |-> params]>> \o @]

(* a log that keeps only its newest entry *)
pushModification_replaces(t, command, params) ==
    [t EXCEPT !.sessionMetadata[1].modifications =
                  <<[timestamp |-> now, command |-> command,
                     params |-> params]>>]

pushModification(t, command, params) ==
    [t EXCEPT !.sessionMetadata[1].modifications =
                  Append(@, [timestamp |-> now, command |-> command,
                             params |-> params])]

(* executeCommand logging whatever the result says *)
executeCommand_logsFailures(t, command, params, resp) ==
    LET t1 == initialize(t)
        t2 == [t1 EXCEPT !.lastActivity = now]
        t3 == containerFetch(t2, "/command", CommandBody(command, params), resp)
    IN  IF t3.outcome = "throw" THEN t3
        ELSE storagePut(pushModification(t3, command, params))

(* executeCommand with the put after the if instead of inside it *)
executeCommand_persistsAlways(t, command, params, resp) ==
    LET t1 == initialize(t)
        t2 == [t1 EXCEPT !.lastActivity = now]
        t3 == containerFetch(t2, "/command", CommandBody(command, params), resp)
    IN  IF t3.outcome = "throw" THEN t3
        ELSE IF t3.result.success
             THEN storagePut(pushModification(t3, command, params))
             ELSE storagePut(t3)

(* executeCommand stamping the activity only once the container answered *)
executeCommand_activityAfterFetch(t, command, params, resp) ==
    LET t1 == initialize(t)
        t2 == containerFetch(t1, "/command", CommandBody(command, params), resp)
        t3 == [t2 EXCEPT !.lastActivity = now]
    IN  IF t2.outcome = "throw" THEN t2
        ELSE IF t3.result.success
             THEN storagePut(pushModification(t3, command, params))
             ELSE t3

executeCommand(t, command, params, resp) ==
    LET t1 == initialize(t)
        t2 == [t1 EXCEPT !.lastActivity = now]
        t3 == containerFetch(t2, "/command", CommandBody(command, params), resp)
    IN  IF t3.outcome = "throw" THEN t3
        ELSE IF t3.result.success
             THEN storagePut(pushModification(t3, command, params))
             ELSE t3

(* dispatchAction without the call of initialize *)
dispatchAction_noInitialize(t, resp) ==
    LET t2 == [t EXCEPT !.lastActivity = now]
    IN  containerFetch(t2, "/action", ActionBody, resp)

(* dispatchAction keeping a log entry like executeCommand does *)
dispatchAction_logs(t, resp) ==
    LET t1 == initialize(t)
        t2 == [t1 EXCEPT !.lastActivity = now]
        t3 == containerFetch(t2, "/action", ActionBody, resp)
    IN  IF t3.outcome = "throw" THEN t3
        ELSE IF t3.result.success
             THEN storagePut(pushModification(t3, "ACTION", "action"))
             ELSE t3

dispatchAction(t, resp) ==
    LET t1 == initialize(t)
        t2 == [t1 EXCEPT !.lastActivity = now]
    IN  containerFetch(t2, "/action", ActionBody, resp)

getState(t, resp) ==
    LET t1 == initialize(t)
        t2 == [t1 EXCEPT !.lastActivity = now]
    IN  containerFetch(t2, "/state", NoBody, resp)

executeScript(t, resp) ==
    LET t1 == initialize(t)
        t2 == [t1 EXCEPT !.lastActivity = now]
    IN  containerFetch(t2, "/execute", ScriptBody, resp)

takeScreenshot(t, resp) ==
    LET t1 == initialize(t)
        t2 == [t1 EXCEPT !.lastActivity = now]
    IN  containerFetch(t2, "/screenshot", NoBody, resp)

(* the key without the suffix *)
PlanKey_noSuffix(planId) == "plans/" \o planId

PlanKey(planId) == "plans/" \o planId \o ".json"
PlanKeys == {PlanKey(p) : p \in Plans \cup {NoPlan}}

(* savePlan going on although getState reported a failure *)
savePlanGetState_ignoresFailure(t, resp) ==
    LET t1 == initialize(t)
    IN  getState(t1, resp)

(* savePlan up to the await of PLANNER_STORAGE.put *)
savePlanGetState(t, resp) ==
    LET t1 == initialize(t)
        t2 == getState(t1, resp)
    IN  IF t2.outcome = "throw" THEN t2
        ELSE IF ~t2.result.success THEN Throw(t2, "SaveFailed")
        ELSE t2

(* savePlan updating and persisting the metadata before it writes the plan *)
savePlanPut_metadataFirst(t, planId, state, planPutOk) ==
    LET t0 == storagePut([t EXCEPT !.sessionMetadata[1].planId = planId,
                                   !.sessionMetadata[1].lastSaved = now])
        object == [ body |-> stringify(state), sessionId |-> t.id,
                    savedAt |-> now ]
    IN  IF ~planPutOk THEN Throw(t0, "PlanStoreError")
        ELSE Return([t0 EXCEPT !.planStore[PlanKey(planId)] = <<object>>,
                               !.planPuts = @ + 1],
                    [success |-> TRUE, planId |-> planId,
                     key |-> PlanKey(planId)])

(* savePlan leaving a plan that is already stored as it is *)
savePlanPut_keepsFirst(t, planId, state, planPutOk) ==
    IF ~planPutOk THEN Throw(t, "PlanStoreError")
    ELSE LET object == [ body |-> stringify(state), sessionId |-> t.id,
                         savedAt |-> now ]
             t1 == [t EXCEPT !.planStore[PlanKey(planId)] =
                                 IF @ = <<>> THEN <<object>> ELSE @,
                             !.planPuts = @ + 1,
                             !.sessionMetadata[1].planId = planId,
                             !.sessionMetadata[1].lastSaved = now]
         IN  Return(storagePut(t1),
                    [success |-> TRUE, planId |-> planId,
                     key |-> PlanKey(planId)])

(* savePlan without the final put of the metadata *)
savePlanPut_noPersist(t, planId, state, planPutOk) ==
    IF ~planPutOk THEN Throw(t, "PlanStoreError")
    ELSE LET object == [ body |-> stringify(state), sessionId |-> t.id,
                         savedAt |-> now ]
             t1 == [t EXCEPT !.planStore[PlanKey(planId)] = <<object>>,
                             !.planPuts = @ + 1,
                             !.sessionMetadata[1].planId = planId,
                             !.sessionMetadata[1].lastSaved = now]
         IN  Return(t1, [success |-> TRUE, planId |-> planId,
                         key |-> PlanKey(planId)])

(* savePlan refusing to overwrite the plan of another session *)
savePlanPut_checksOwner(t, planId, state, planPutOk) ==
    IF ~planPutOk THEN Throw(t, "PlanStoreError")
    ELSE IF /\ t.planStore[PlanKey(planId)] # <<>>
            /\ t.planStore[PlanKey(planId)][1].sessionId # t.id
    THEN Throw(t, "Conflict")
    ELSE LET object == [ body |-> stringify(state), sessionId |-> t.id,
                         savedAt |-> now ]
             t1 == [t EXCEPT !.planStore[PlanKey(planId)] = <<object>>,
                             !.planPuts = @ + 1,
                             !.sessionMetadata[1].planId = planId,
                             !.sessionMetadata[1].lastSaved = now]
         IN  Return(storagePut(t1),
                    [success |-> TRUE, planId |-> planId,
                     key |-> PlanKey(planId)])

(* savePlan from the call of PLANNER_STORAGE.put on *)
savePlanPut(t, planId, state, planPutOk) ==
    IF ~planPutOk THEN Throw(t, "PlanStoreError")
    ELSE LET object == [ body |-> stringify(state), sessionId |-> t.id,
                         savedAt |-> now ]
             t1 == [t EXCEPT !.planStore[PlanKey(planId)] = <<object>>,
                             !.planPuts = @ + 1,
                             !.sessionMetadata[1].planId = planId,
                             !.sessionMetadata[1].lastSaved = now]
         IN  Return(storagePut(t1),
                    [success |-> TRUE, planId |-> planId,
                     key |-> PlanKey(planId)])

(* savePlan when nothing else runs between its awaits *)
savePlan(t, planId, resp, planPutOk) ==
    LET t1 == savePlanGetState(t, resp)
    IN  IF t1.outcome = "throw" THEN t1
        ELSE savePlanPut(t1, planId, t1.result.data, planPutOk)

(* loadPlan without the final put of the metadata *)
loadPlan_noPersist(t, planId, resp) ==
    LET t1 == initialize(t)
        plan == t1.planStore[PlanKey(planId)]
    IN  IF plan = <<>> THEN Throw(t1, "PlanNotFound:" \o planId)
        ELSE LET planData == parse(plan[1].body)
                 t2 == executeCommand(t1, "LOAD_PROJECT", planData, resp)
             IN  IF t2.outcome = "throw" THEN t2
                 ELSE [t2 EXCEPT !.sessionMetadata[1].planId = planId]

(* loadPlan assigning planId before it looks the plan up *)
loadPlan_planIdFirst(t, planId, resp) ==
    LET t0 == initialize(t)
        t1 == [t0 EXCEPT !.sessionMetadata[1].planId = planId]
        plan == t1.planStore[PlanKey(planId)]
    IN  IF plan = <<>> THEN Throw(t1, "PlanNotFound:" \o planId)
        ELSE LET planData == parse(plan[1].body)
                 t2 == executeCommand(t1, "LOAD_PROJECT", planData, resp)
             IN  IF t2.outcome = "throw" THEN t2
                 ELSE storagePut(t2)

(* loadPlan updating planId only when the command succeeded *)
loadPlan_planIdOnSuccess(t, planId, resp) ==
    LET t1 == initialize(t)
        plan == t1.planStore[PlanKey(planId)]
    IN  IF plan = <<>> THEN Throw(t1, "PlanNotFound:" \o planId)
        ELSE LET planData == parse(plan[1].body)
                 t2 == executeCommand(t1, "LOAD_PROJECT", planData, resp)
             IN  IF t2.outcome = "throw" \/ ~t2.result.success THEN t2
                 ELSE storagePut([t2 EXCEPT !.sessionMetadata[1].planId = planId])

(* loadPlan posting the command itself instead of calling executeCommand *)
loadPlan_directFetch(t, planId, resp) ==
    LET t1 == initialize(t)
        plan == t1.planStore[PlanKey(planId)]
    IN  IF plan = <<>> THEN Throw(t1, "PlanNotFound:" \o planId)
        ELSE LET planData == parse(plan[1].body)
                 t2 == containerFetch([t1 EXCEPT !.lastActivity = now], "/command",
                                      CommandBody("LOAD_PROJECT", planData), resp)
             IN  IF t2.outcome = "throw" THEN t2
                 ELSE storagePut([t2 EXCEPT !.sessionMetadata[1].planId = planId])

loadPlan(t, planId, resp) ==
    LET t1 == initialize(t)
        plan == t1.planStore[PlanKey(planId)]
    IN  IF plan = <<>> THEN Throw(t1, "PlanNotFound:" \o planId)
        ELSE LET planData == parse(plan[1].body)
                 t2 == executeCommand(t1, "LOAD_PROJECT", planData, resp)
             IN  IF t2.outcome = "throw" THEN t2
                 ELSE storagePut([t2 EXCEPT !.sessionMetadata[1].planId = planId])

getMetadata(t) ==
    LET t1 == initialize(t)
    IN  Return(t1, [sessionId |-> t1.id, lastActivity |-> t1.lastActivity,
                    metadata |-> t1.sessionMetadata[1]])

(* The paths fetch switches on, and one it does not know *)
KnownPaths == {"/command", "/action", "/state", "/screenshot", "/execute",
               "/save", "/load", "/metadata"}
Paths == KnownPaths \cup {"/unknown"}

(* the paths whose case reads the request body with request.json() *)
BodyPaths == {"/command", "/action", "/execute", "/save", "/load"}

(* Response.json(body, {status}) *)
Response(status, body) == [status |-> status, body |-> body]

(* fetch acquiring the handle before it looks at the path *)
fetch_eagerContainer(t, path, body, getOk, resp, planPutOk) ==
    IF t.sessionMetadata = <<>> /\ ~getOk
    THEN Throw([t EXCEPT !.reads = @ + 1], "StorageError")
    ELSE LET t1 == getContainer(initialize(t))
             r == IF path \in BodyPaths /\ body = <<>>
                  THEN Throw(t1, "SyntaxError")
                  ELSE CASE path = "/command" ->
                                executeCommand(t1, body[1].command,
                                               body[1].params, resp)
                         [] path = "/action" -> dispatchAction(t1, resp)
                         [] path = "/state" -> getState(t1, resp)
                         [] path = "/screenshot" -> takeScreenshot(t1, resp)
                         [] path = "/execute" -> executeScript(t1, resp)
                         [] path = "/save" ->
                                savePlan(t1, body[1].planId, resp, planPutOk)
                         [] path = "/load" -> loadPlan(t1, body[1].planId, resp)
                         [] path = "/metadata" -> getMetadata(t1)
                         [] OTHER -> t1
         IN  IF path \notin KnownPaths
             THEN Return(t1, Response(404, [error |-> "Not found"]))
             ELSE IF r.outcome = "throw"
             THEN Return(r, Response(500, [success |-> FALSE, error |-> r.error]))
             ELSE Return(r, Response(200, r.result))


(* fetch(request): body is what request.json() gives, <<>> when reading it *)
(* throws; getOk tells whether storage.get('metadata') resolves.  The call *)
(* of initialize stands before the try block: what it throws is thrown by  *)
(* fetch; what the cases throw is caught and answered with status 500.     *)
fetch(t, path, body, getOk, resp, planPutOk) ==
    IF t.sessionMetadata = <<>> /\ ~getOk
    THEN Throw([t EXCEPT !.reads = @ + 1], "StorageError")
    ELSE LET t1 == initialize(t)
             r == IF path \in BodyPaths /\ body = <<>>
                  THEN Throw(t1, "SyntaxError")
                  ELSE CASE path = "/command" ->
                                executeCommand(t1, body[1].command,
                                               body[1].params, resp)
                         [] path = "/action" -> dispatchAction(t1, resp)
                         [] path = "/state" -> getState(t1, resp)
                         [] path = "/screenshot" -> takeScreenshot(t1, resp)
                         [] path = "/execute" -> executeScript(t1, resp)
                         [] path = "/save" ->
                                savePlan(t1, body[1].planId, resp, planPutOk)
                         [] path = "/load" -> loadPlan(t1, body[1].planId, resp)
                         [] path = "/metadata" -> getMetadata(t1)
                         [] OTHER -> t1
         IN  IF path \notin KnownPaths
             THEN Return(t1, Response(404, [error |-> "Not found"]))
             ELSE IF r.outcome = "throw"
             THEN Return(r, Response(500, [success |-> FALSE, error |-> r.error]))
             ELSE Return(r, Response(200, r.result))


(* an alarm handler that saves without looking at planId *)
alarm_ignoresPlanId(t, resp, planPutOk) ==
    IF /\ t.sessionMetadata # <<>>
       /\ Len(t.sessionMetadata[1].modifications) > 0
    THEN LET t1 == savePlan(t, t.sessionMetadata[1].planId, resp, planPutOk)
         IN  [t1 EXCEPT !.outcome = "return",
                        !.alarmTime = <<now + AlarmIntervalMs>>]
    ELSE t

(* The alarm handler as the source has it: after the condition and the     *)
(* opening of the try block the only statement is the setAlarm call; there *)
(* is no call of savePlan and no catch clause.  resp and planPutOk are     *)
(* what the container and the plan store would answer at that time; the    *)
(* handler as written consults neither.                                    *)
alarm(t, resp, planPutOk) ==
    IF /\ t.sessionMetadata # <<>>
       /\ t.sessionMetadata[1].planId # NoPlan
       /\ Len(t.sessionMetadata[1].modifications) > 0
    THEN [t EXCEPT !.alarmTime = <<now + AlarmIntervalMs>>]
    ELSE t

constructor(t) ==
    [t EXCEPT !.containerInstance = <<>>,
              !.sessionMetadata = <<>>,
              !.lastActivity = now,
              !.getCalls = 0,
              !.metaLoads = 0]

-----------------------------------------------------------------------------
(* State changes *)

(* the slot 'metadata' in one store shared by all actors *)
Commit_sharedSlot(s, t) ==
    /\ sessionMetadata' = [sessionMetadata EXCEPT ![s] = t.sessionMetadata]
    /\ containerInstance' = [containerInstance EXCEPT ![s] = t.containerInstance]
    /\ lastActivity' = [lastActivity EXCEPT ![s] = t.lastActivity]
    /\ storage' = [b \in Sessions |-> t.storage]
    /\ alarmTime' = [alarmTime EXCEPT ![s] = t.alarmTime]
    /\ getCalls' = [getCalls EXCEPT ![s] = t.getCalls]
    /\ metaLoads' = [metaLoads EXCEPT ![s] = t.metaLoads]
    /\ planStore' = t.planStore

Commit(s, t) ==
    /\ sessionMetadata' = [sessionMetadata EXCEPT ![s] = t.sessionMetadata]
    /\ containerInstance' = [containerInstance EXCEPT ![s] = t.containerInstance]
    /\ lastActivity' = [lastActivity EXCEPT ![s] = t.lastActivity]
    /\ storage' = [storage EXCEPT ![s] = t.storage]
    /\ alarmTime' = [alarmTime EXCEPT ![s] = t.alarmTime]
    /\ getCalls' = [getCalls EXCEPT ![s] = t.getCalls]
    /\ metaLoads' = [metaLoads EXCEPT ![s] = t.metaLoads]
    /\ planStore' = t.planStore

Record(op, s, command, params, planId, resp, planPutOk, t) ==
    last' = [ op |-> op, session |-> s, time |-> now, command |-> command,
              params |-> params, planId |-> planId, resp |-> resp,
              planPutOk |-> planPutOk,
              outcome |-> t.outcome, error |-> t.error, result |-> t.result,
              reads |-> t.reads, writes |-> t.writes, gets |-> t.gets,
              forwards |-> t.forwards, planPuts |-> t.planPuts,
              handle |-> t.handle, sent |-> t.sent ]

(* the commands the container has reported as successful, in issue order *)
Issue(s, command, params, resp) ==
    issued' = IF resp.kind = "json" /\ resp.success
              THEN [issued EXCEPT ![s] = Append(@, [command |-> command,
                                                    params |-> params])]
              ELSE issued

(* the hosting environment starts an operation on an actor that has none   *)
(* in progress                                                             *)
Begin(s) ==
    /\ s \in served
    /\ saving[s] = <<>>
    /\ now <= budget
    /\ now' = now + 1
    /\ UNCHANGED worker

Initialize(s) ==
    /\ Begin(s)
    /\ LET t == initialize(Self(s))
       IN  Commit(s, t) /\ Record("initialize", s, "none", "none", NoPlan, NoResult, TRUE, t)
    /\ UNCHANGED <<saving, issued, served, budget>>

ExecuteCommand(s) ==
    /\ Begin(s)
    /\ \E command \in Commands, params \in Params :
       \E resp \in CommandResponses(command) \cup {Thrown} :
          LET t == executeCommand(Self(s), command, params, resp)
          IN  /\ Commit(s, t)
              /\ Record("executeCommand", s, command, params, NoPlan, resp, TRUE, t)
              /\ Issue(s, command, params, resp)
    /\ UNCHANGED <<saving, served, budget>>

DispatchAction(s) ==
    /\ Begin(s)
    /\ \E resp \in ActionResponses \cup {Thrown} :
          LET t == dispatchAction(Self(s), resp)
          IN  Commit(s, t) /\ Record("dispatchAction", s, "none", "none", NoPlan, resp, TRUE, t)
    /\ UNCHANGED <<saving, issued, served, budget>>

GetState(s) ==
    /\ Begin(s)
    /\ \E resp \in StateResponses \cup {Thrown} :
          LET t == getState(Self(s), resp)
          IN  Commit(s, t) /\ Record("getState", s, "none", "none", NoPlan, resp, TRUE, t)
    /\ UNCHANGED <<saving, issued, served, budget>>

ExecuteScript(s) ==
    /\ Begin(s)
    /\ \E resp \in ActionResponses \cup {Thrown} :
          LET t == executeScript(Self(s), resp)
          IN  Commit(s, t) /\ Record("executeScript", s, "none", "none", NoPlan, resp, TRUE, t)
    /\ UNCHANGED <<saving, issued, served, budget>>

TakeScreenshot(s) ==
    /\ Begin(s)
    /\ \E resp \in ActionResponses \cup {Thrown} :
          LET t == takeScreenshot(Self(s), resp)
          IN  Commit(s, t) /\ Record("takeScreenshot", s, "none", "none", NoPlan, resp, TRUE, t)
    /\ UNCHANGED <<saving, issued, served, budget>>

SavePlanBegin(s) ==
    /\ Begin(s)
    /\ \E planId \in Plans, resp \in StateResponses \cup {Thrown} :
          LET t == savePlanGetState(Self(s), resp)
          IN  /\ Commit(s, t)
              /\ IF t.outcome = "throw"
                 THEN /\ saving' = saving
                      /\ Record("savePlan", s, "none", "none", planId, resp, TRUE, t)
                 ELSE /\ saving' = [saving EXCEPT ![s] =
                                       << [planId |-> planId, resp |-> resp] >>]
                      /\ Record("savePlan", s, "none", "none", planId, resp, TRUE,
                                [t EXCEPT !.outcome = "await"])
    /\ UNCHANGED <<issued, served, budget>>

SavePlanEnd(s) ==
    /\ saving[s] # <<>>
    /\ \E planPutOk \in BOOLEAN :
          LET planId == saving[s][1].planId
              resp == saving[s][1].resp
              t == savePlanPut(Self(s), planId, resp.data, planPutOk)
          IN  /\ Commit(s, t)
              /\ Record("savePlan", s, "none", "none", planId, resp, planPutOk, t)
    /\ saving' = [saving EXCEPT ![s] = <<>>]
    /\ UNCHANGED <<issued, now, served, budget>>
    /\ UNCHANGED worker

LoadPlan(s) ==
    /\ Begin(s)
    /\ \E planId \in Plans :
       \E resp \in CommandResponses("LOAD_PROJECT") \cup {Thrown} :
          LET t == loadPlan(Self(s), planId, resp)
          IN  /\ Commit(s, t)
              /\ Record("loadPlan", s, "LOAD_PROJECT", "none", planId, resp, TRUE, t)
              /\ IF t.forwards > 0
                 THEN Issue(s, "LOAD_PROJECT",
                            parse(planStore[PlanKey(planId)][1].body), resp)
                 ELSE issued' = issued
    /\ UNCHANGED <<saving, served, budget>>

GetMetadata(s) ==
    /\ Begin(s)
    /\ LET t == getMetadata(Self(s))
       IN  Commit(s, t) /\ Record("getMetadata", s, "none", "none", NoPlan, NoResult, TRUE, t)
    /\ UNCHANGED <<saving, issued, served, budget>>

Alarm(s) ==
    /\ Begin(s)
    /\ \E resp \in StateResponses \cup {Thrown}, planPutOk \in BOOLEAN :
          LET t == alarm(Self(s), resp, planPutOk)
          IN  Commit(s, t) /\ Record("alarm", s, "none", "none", NoPlan, resp, planPutOk, t)
    /\ UNCHANGED <<saving, issued, served, budget>>

(* the hosting environment discards the instance and constructs a new one *)
Evict(s) ==
    /\ Begin(s)
    /\ sessionMetadata[s] # <<>>
    /\ LET t == constructor(Self(s))
       IN  Commit(s, t) /\ Record("constructor", s, "none", "none", NoPlan, NoResult, TRUE, t)
    /\ UNCHANGED <<saving, issued, served, budget>>

(* The requests a caller can send to a path *)
RequestBodies(path) ==
    CASE path = "/command" ->
             {<<>>} \cup {<<[command |-> c, params |-> p]>> :
                              c \in Commands, p \in Params}
      [] path \in {"/save", "/load"} ->
             {<<>>} \cup {<<[planId |-> p]>> : p \in Plans}
      [] path = "/action" -> {<<>>, <<[action |-> "action"]>>}
      [] path = "/execute" -> {<<>>, <<[script |-> "script"]>>}
      [] OTHER -> {<<>>}

(* What the container can answer to the request the path leads to *)
PathResponses(path, body) ==
    IF path \in BodyPaths /\ body = <<>> THEN {NoResult}
    ELSE CASE path = "/command" ->
                  CommandResponses(body[1].command) \cup {Thrown}
           [] path = "/load" -> CommandResponses("LOAD_PROJECT") \cup {Thrown}
           [] path \in {"/state", "/save"} -> StateResponses \cup {Thrown}
           [] path \in {"/action", "/execute", "/screenshot"} ->
                  ActionResponses \cup {Thrown}
           [] OTHER -> {NoResult}

(* One request served by fetch from its first line to its response *)
Fetch(s) ==
    /\ Begin(s)
    /\ \E path \in Paths :
       \E body \in RequestBodies(path) :
       \E resp \in PathResponses(path, body) :
       \E getOk \in (IF sessionMetadata[s] = <<>> THEN BOOLEAN ELSE {TRUE}) :
       \E planPutOk \in (IF path = "/save" /\ resp.kind = "json" /\ resp.success
                         THEN BOOLEAN ELSE {TRUE}) :
          LET t == fetch(Self(s), path, body, getOk, resp, planPutOk)
              logged == Len(t.sessionMetadata[1].modifications) >
                        Len(initialize(Self(s)).sessionMetadata[1].modifications)
          IN  /\ Commit(s, t)
              /\ last' = [ op |-> "fetch", session |-> s, time |-> now,
                           path |-> path, body |-> body, getOk |-> getOk,
                           resp |-> resp, planPutOk |-> planPutOk,
                           outcome |-> t.outcome, error |-> t.error,
                           result |-> t.result, reads |-> t.reads,
                           writes |-> t.writes, gets |-> t.gets,
                           forwards |-> t.forwards, planPuts |-> t.planPuts,
                           handle |-> t.handle, sent |-> t.sent ]
              /\ issued' = IF t.sessionMetadata # <<>> /\ logged
                           THEN [issued EXCEPT ![s] =
                                    Append(@, [command |-> parse(t.sent[1].body[1]).command,
                                               params |-> parse(t.sent[1].body[1]).params])]
                           ELSE issued
    /\ UNCHANGED <<saving, served, budget>>


Constructed ==
    /\ sessionMetadata = [s \in Sessions |-> <<>>]
    /\ containerInstance = [s \in Sessions |-> <<>>]
    /\ lastActivity = [s \in Sessions |-> 0]
    /\ storage = [s \in Sessions |-> <<>>]
    /\ alarmTime = [s \in Sessions |-> <<>>]
    /\ getCalls = [s \in Sessions |-> 0]
    /\ metaLoads = [s \in Sessions |-> 0]
    /\ planStore = [k \in PlanKeys |-> <<>>]
    /\ saving = [s \in Sessions |-> <<>>]
    /\ issued = [s \in Sessions |-> <<>>]
    /\ now = 1
    /\ last = [ op |-> "none", session |-> "none", time |-> 0,
                command |-> "none", params |-> "none", planId |-> NoPlan,
                resp |-> NoResult, outcome |-> "return", error |-> "none",
                planPutOk |-> TRUE, result |-> NoResult, reads |-> 0,
                writes |-> 0, gets |-> 0, forwards |-> 0, planPuts |-> 0,
                handle |-> <<>>, sent |-> <<>> ]

(* one session *)
NoWorkerCall ==
    seqCall = <<>> /\ queueCall = <<>> /\ gatewayCall = <<>> /\ parseCall = <<>>

Init == Constructed /\ served = {"A"} /\ budget = MaxOps /\ NoWorkerCall

(* two sessions sharing the plan store *)
InitPair ==
    Constructed /\ served = Sessions /\ budget = PairMaxOps /\ NoWorkerCall

Next ==
    \/ \E s \in Sessions : Initialize(s)
    \/ \E s \in Sessions : ExecuteCommand(s)
    \/ \E s \in Sessions : DispatchAction(s)
    \/ \E s \in Sessions : GetState(s)
    \/ \E s \in Sessions : ExecuteScript(s)
    \/ \E s \in Sessions : TakeScreenshot(s)
    \/ \E s \in Sessions : SavePlanBegin(s)
    \/ \E s \in Sessions : SavePlanEnd(s)
    \/ \E s \in Sessions : LoadPlan(s)
    \/ \E s \in Sessions : GetMetadata(s)
    \/ \E s \in Sessions : Alarm(s)
    \/ \E s \in Sessions : Evict(s)

Spec == Init /\ [][Next]_vars

SpecPair == InitPair /\ [][Next]_vars

(* one session driven through fetch *)
InitFetch ==
    Constructed /\ served = {"A"} /\ budget = FetchMaxOps /\ NoWorkerCall

NextFetch ==
    \/ \E s \in Sessions : Fetch(s)
    \/ \E s \in Sessions : Evict(s)

SpecFetch == InitFetch /\ [][NextFetch]_vars

-----------------------------------------------------------------------------
(* The gateway worker's functions.  Each is an operator from its arguments *)
(* and the answers of its environment to its return value; a               *)
(* specification draws the arguments in its initial state and applies the  *)
(* function in one step.  No actor runs in these specifications.           *)

actor == <<sessionMetadata, containerInstance, lastActivity, storage,
           alarmTime, getCalls, metaLoads, planStore, saving, issued, now,
           served, budget, last>>

NoActor == Constructed /\ served = {} /\ budget = 0

(* the sequences over S of length at most n *)
SeqUpTo(S, n) == UNION {[1..k -> S] : k \in 0..n}

(* ---- executeCommandSequence(sessionStub, commands) ---- *)

CommandItems == {[command |-> c, params |-> p] : c \in Commands, p \in Params}

(* what sessionStub.fetch('http://session/command') and response.json()    *)
(* give for each command of the list: a result, or a thrown network error  *)
StubAnswers(commands) ==
    {a \in [1..Len(commands) -> UNION {CommandResponses(c) : c \in Commands}
                                   \cup {Thrown}] :
        \A i \in 1..Len(commands) :
            a[i] \in CommandResponses(commands[i].command) \cup {Thrown}}

(* a loop body that goes on after a failed command *)
sequenceStep_continues(acc, item, answer) ==
    LET sent == Append(acc.sent, item)
    IN  IF answer.kind = "throw"
        THEN [acc EXCEPT !.sent = sent, !.stop = TRUE,
                         !.results = Append(@, [command |-> item.command,
                                                params |-> item.params,
                                                success |-> FALSE,
                                                error |-> answer.data])]
        ELSE [acc EXCEPT !.sent = sent,
                         !.results = Append(@, [command |-> item.command,
                                                params |-> item.params,
                                                success |-> answer.success,
                                                result |-> answer])]

(* a loop body without the try and catch *)
sequenceStep_rethrows(acc, item, answer) ==
    LET sent == Append(acc.sent, item)
    IN  IF answer.kind = "throw"
        THEN [acc EXCEPT !.sent = sent, !.stop = TRUE, !.outcome = "throw"]
        ELSE [acc EXCEPT !.sent = sent, !.stop = ~answer.success,
                         !.results = Append(@, [command |-> item.command,
                                                params |-> item.params,
                                                success |-> answer.success,
                                                result |-> answer])]

(* one pass of the for loop's body: send, push the entry, break or go on *)
sequenceStep(acc, item, answer) ==
    LET sent == Append(acc.sent, item)
    IN  IF answer.kind = "throw"
        THEN [acc EXCEPT !.sent = sent, !.stop = TRUE,
                         !.results = Append(@, [command |-> item.command,
                                                params |-> item.params,
                                                success |-> FALSE,
                                                error |-> answer.data])]
        ELSE [acc EXCEPT !.sent = sent, !.stop = ~answer.success,
                         !.results = Append(@, [command |-> item.command,
                                                params |-> item.params,
                                                success |-> answer.success,
                                                result |-> answer])]

RECURSIVE sequenceLoop(_, _, _, _)
sequenceLoop(commands, answers, i, acc) ==
    IF i > Len(commands) \/ acc.stop THEN acc
    ELSE sequenceLoop(commands, answers, i + 1,
                      sequenceStep(acc, commands[i], answers[i]))

executeCommandSequence(commands, answers) ==
    sequenceLoop(commands, answers, 1,
                 [results |-> <<>>, sent |-> <<>>, stop |-> FALSE,
                  outcome |-> "return"])

ExecuteCommandSequence ==
    /\ seqCall # <<>>
    /\ ~seqCall[1].done
    /\ LET r == executeCommandSequence(seqCall[1].commands, seqCall[1].answers)
       IN  seqCall' = <<[seqCall[1] EXCEPT !.done = TRUE,
                                          !.outcome = r.outcome,
                                          !.results = r.results,
                                          !.sent = r.sent]>>
    /\ UNCHANGED <<actor, queueCall, gatewayCall, parseCall>>

InitSeq ==
    /\ NoActor
    /\ \E commands \in SeqUpTo(CommandItems, MaxSeqLen) :
       \E answers \in StubAnswers(commands) :
          seqCall = <<[commands |-> commands, answers |-> answers,
                       done |-> FALSE, outcome |-> "none",
                       results |-> <<>>, sent |-> <<>>]>>
    /\ queueCall = <<>> /\ gatewayCall = <<>> /\ parseCall = <<>>

NextSeq == ExecuteCommandSequence

SpecSeq == InitSeq /\ [][NextSeq]_vars

(* ---- queue(batch, env) ---- *)

Tasks == {"AUTO_SAVE", "EXECUTE_COMMAND", "BATCH_COMMANDS", "OTHER"}

(* message.body: <<>> when there is none, else {sessionId, task, params}   *)
(* with params <<>> when the sender left them out                          *)
MessageBodies ==
    {<<>>}
    \cup {<<[sessionId |-> "A", task |-> task, params |-> <<>>]>> :
             task \in Tasks}
    \cup {<<[sessionId |-> "A", task |-> "AUTO_SAVE",
             params |-> <<[planId |-> "p1"]>>]>>}
    \cup {<<[sessionId |-> "A", task |-> "EXECUTE_COMMAND",
             params |-> <<[command |-> "ADD_ITEM", commandParams |-> "x1"]>>]>>}
    \cup {<<[sessionId |-> "A", task |-> "BATCH_COMMANDS",
             params |-> <<[commands |-> commands]>>]>> :
             commands \in SeqUpTo({[command |-> c, params |-> "x1"] :
                                      c \in Commands}, 2)}

(* what session.fetch does for the message: a response with a success or  *)
(* a failure in it, or a rejection                                         *)
SessionAnswers == {Json(TRUE, "result"), Json(FALSE, "error"), Thrown}

(* the body of the try block up to message.ack(): whether it threw, and    *)
(* the requests it sent to the session                                     *)
processMessage(body, answer) ==
    IF body = <<>> THEN [threw |-> TRUE, fetches |-> 0]
    ELSE LET task == body[1].task
             params == body[1].params
         IN  IF task \in {"AUTO_SAVE", "EXECUTE_COMMAND"}
             THEN IF params = <<>> THEN [threw |-> TRUE, fetches |-> 0]
                  ELSE [threw |-> answer.kind = "throw", fetches |-> 1]
             ELSE IF task = "BATCH_COMMANDS"
             THEN IF params = <<>> THEN [threw |-> TRUE, fetches |-> 0]
                  ELSE LET commands == params[1].commands
                           r == executeCommandSequence(commands,
                                    [i \in 1..Len(commands) |-> answer])
                       IN  [threw |-> r.outcome = "throw",
                            fetches |-> Len(r.sent)]
             ELSE [threw |-> FALSE, fetches |-> 0]

(* a loop body that acknowledges in a finally block *)
queueStep_ackInFinally(acc, i, body, answer) ==
    LET p == processMessage(body, answer)
        retried == IF p.threw
                   THEN Append(acc.settled, [message |-> i, how |-> "retry"])
                   ELSE acc.settled
    IN  [acc EXCEPT !.settled = Append(retried, [message |-> i, how |-> "ack"]),
                    !.fetches = @ + p.fetches]

(* one pass of the loop: process, then message.ack(), or message.retry()   *)
(* in the catch block                                                      *)
queueStep(acc, i, body, answer) ==
    LET p == processMessage(body, answer)
    IN  [acc EXCEPT !.settled =
                        Append(@, [message |-> i,
                                   how |-> IF p.threw THEN "retry" ELSE "ack"]),
                    !.fetches = @ + p.fetches]

RECURSIVE queueLoop(_, _, _, _)
queueLoop(messages, answers, i, acc) ==
    IF i > Len(messages) THEN acc
    ELSE queueLoop(messages, answers, i + 1,
                   queueStep(acc, i, messages[i], answers[i]))

queue(messages, answers) ==
    queueLoop(messages, answers, 1,
              [settled |-> <<>>, fetches |-> 0, outcome |-> "return"])

Queue ==
    /\ queueCall # <<>>
    /\ ~queueCall[1].done
    /\ LET r == queue(queueCall[1].messages, queueCall[1].answers)
       IN  queueCall' = <<[queueCall[1] EXCEPT !.done = TRUE,
                                              !.outcome = r.outcome,
                                              !.settled = r.settled,
                                              !.fetches = r.fetches]>>
    /\ UNCHANGED <<actor, seqCall, gatewayCall, parseCall>>

InitQueue ==
    /\ NoActor
    /\ \E messages \in SeqUpTo(MessageBodies, MaxBatch) :
       \E answers \in [1..Len(messages) -> SessionAnswers] :
          queueCall = <<[messages |-> messages, answers |-> answers,
                         done |-> FALSE, outcome |-> "none",
                         settled |-> <<>>, fetches |-> 0]>>
    /\ seqCall = <<>> /\ gatewayCall = <<>> /\ parseCall = <<>>

NextQueue == Queue

SpecQueue == InitQueue /\ [][NextQueue]_vars

(* ---- fetch(request, env, ctx) of the gateway ---- *)

Methods == {"POST", "GET", "OPTIONS"}
GatewayPaths == {"/health", "/", "/session/", "/modify", "/command", "/screenshot",
                 "/save", "/load", "/sessions", "/other"}

(* The strings of the Authorization header and of env.WORKER_API_KEY, as   *)
(* sequences of characters                                                 *)
Bearer == <<"B", "e", "a", "r", "e", "r", " ">>
Key1 == <<"k", "1">>
Key2 == <<"k", "2">>

(* request.headers.get('Authorization'): <<>> when the header is absent *)
AuthHeaders ==
    {<<>>} \cup
    {<<h>> : h \in {Bearer \o Key1, Bearer \o Key2, Bearer \o Key1 \o <<"x">>,
                    Key1, <<"b", "e", "a", "r", "e", "r", " ">> \o Key1,
                    <<"B", "a", "s", "i", "c", " ">> \o Key1}}

(* env of the gateway: the key is unset, the empty string or Key1 *)
Envs == [WORKER_API_KEY : {<<>>, << <<>> >>, <<Key1>>}]

startsWith(str, prefix) ==
    Len(str) >= Len(prefix) /\ SubSeq(str, 1, Len(prefix)) = prefix

substring(str, from) == SubSeq(str, from + 1, Len(str))

(* a check that accepts every bearer token *)
verifyAuth_anyBearer(request, env) ==
    LET apiKey == env.WORKER_API_KEY
        authHeader == request.authorization
    IN  IF apiKey = <<>> \/ apiKey[1] = <<>> THEN TRUE
        ELSE IF authHeader = <<>> \/ ~startsWith(authHeader[1], Bearer)
        THEN FALSE
        ELSE TRUE

verifyAuth(request, env) ==
    LET apiKey == env.WORKER_API_KEY
        authHeader == request.authorization
    IN  IF apiKey = <<>> \/ apiKey[1] = <<>> THEN TRUE
        ELSE IF authHeader = <<>> \/ ~startsWith(authHeader[1], Bearer)
        THEN FALSE
        ELSE substring(authHeader[1], 7) = apiKey[1]

(* A request: authorization is its Authorization header, bodyOk tells      *)
(* whether request.json() can read it; sessionId is the third segment of a *)
(* /session/ path, the query parameter of /screenshot and the body field   *)
(* elsewhere; a field that is missing or empty is <<>>.                    *)
Requests ==
    [ method : Methods, path : GatewayPaths, authorization : AuthHeaders,
      bodyOk : BOOLEAN,
      sessionId : {<<>>, <<"A">>}, prompt : {<<>>, <<"add a sofa">>},
      command : {<<>>, <<"ADD_ITEM">>}, planId : {<<>>, <<"p1">>} ]

(* What a handler answers, the calls of getSession and of session.fetch it *)
(* made; outcome "throw" when it threw to the catch block of fetch         *)
Answer(status, gets, fetches) ==
    [status |-> status, gets |-> gets, fetches |-> fetches, outcome |-> "return"]
Raise(gets, fetches) ==
    [status |-> 0, gets |-> gets, fetches |-> fetches, outcome |-> "throw"]

(* getSession, session.fetch, and the response handed back *)
forward(answer) ==
    IF answer.kind = "throw" THEN Raise(1, 1) ELSE Answer(200, 1, 1)

handleSessionRequest(req, answer) ==
    IF req.sessionId = <<>> THEN Answer(400, 0, 0)
    ELSE forward(answer)

handleModifyRequest(req, answer, parsed) ==
    IF req.method # "POST" THEN Answer(405, 0, 0)
    ELSE IF ~req.bodyOk THEN Raise(0, 0)
    ELSE IF req.prompt = <<>> \/ req.sessionId = <<>> THEN Answer(400, 0, 0)
    ELSE IF parsed = "CLARIFY" THEN Answer(200, 1, 1)
    ELSE IF answer.kind = "throw" THEN Raise(1, 2)
    ELSE Answer(200, 1, 2)

handleCommandRequest(req, answer) ==
    IF req.method # "POST" THEN Answer(405, 0, 0)
    ELSE IF ~req.bodyOk THEN Raise(0, 0)
    ELSE IF req.command = <<>> \/ req.sessionId = <<>> THEN Answer(400, 0, 0)
    ELSE forward(answer)

handleScreenshotRequest(req, answer) ==
    IF req.sessionId = <<>> THEN Answer(400, 0, 0)
    ELSE forward(answer)

(* a save handler that asks for the session identity only *)
handleSaveRequest_noPlanIdCheck(req, answer) ==
    IF req.method # "POST" THEN Answer(405, 0, 0)
    ELSE IF ~req.bodyOk THEN Raise(0, 0)
    ELSE IF req.sessionId = <<>> THEN Answer(400, 0, 0)
    ELSE forward(answer)

handleSaveRequest(req, answer) ==
    IF req.method # "POST" THEN Answer(405, 0, 0)
    ELSE IF ~req.bodyOk THEN Raise(0, 0)
    ELSE IF req.sessionId = <<>> \/ req.planId = <<>> THEN Answer(400, 0, 0)
    ELSE forward(answer)

handleLoadRequest(req, answer) ==
    IF req.method # "POST" THEN Answer(405, 0, 0)
    ELSE IF ~req.bodyOk THEN Raise(0, 0)
    ELSE IF req.sessionId = <<>> \/ req.planId = <<>> THEN Answer(400, 0, 0)
    ELSE forward(answer)

gatewayFetch(req, env, answer, parsed) ==
    IF req.method = "OPTIONS" THEN Answer(204, 0, 0)
    ELSE LET r == IF req.path = "/health" \/ req.path = "/"
                  THEN Answer(200, 0, 0)
                  ELSE IF ~verifyAuth(req, env) THEN Answer(401, 0, 0)
                  ELSE CASE req.path = "/session/" ->
                                handleSessionRequest(req, answer)
                         [] req.path = "/modify" ->
                                handleModifyRequest(req, answer, parsed)
                         [] req.path = "/command" ->
                                handleCommandRequest(req, answer)
                         [] req.path = "/screenshot" ->
                                handleScreenshotRequest(req, answer)
                         [] req.path = "/save" -> handleSaveRequest(req, answer)
                         [] req.path = "/load" -> handleLoadRequest(req, answer)
                         [] req.path = "/sessions" -> Answer(200, 0, 0)
                         [] OTHER -> Answer(404, 0, 0)
         IN  IF r.outcome = "throw" THEN Answer(500, r.gets, r.fetches)
             ELSE r

GatewayFetch ==
    /\ gatewayCall # <<>>
    /\ ~gatewayCall[1].done
    /\ LET c == gatewayCall[1]
           r == gatewayFetch(c.req, c.env, c.answer, c.parsed)
       IN  gatewayCall' = <<[c EXCEPT !.done = TRUE, !.status = r.status,
                                     !.gets = r.gets, !.fetches = r.fetches,
                                     !.outcome = r.outcome]>>
    /\ UNCHANGED <<actor, seqCall, queueCall, parseCall>>

InitGateway ==
    /\ NoActor
    /\ \E req \in Requests, env \in Envs,
          answer \in {Json(TRUE, "result"), Thrown},
          parsed \in {"CLARIFY", "ADD_ITEM"} :
          gatewayCall = <<[req |-> req, env |-> env,
                           answer |-> answer, parsed |-> parsed,
                           done |-> FALSE, status |-> 0, gets |-> 0,
                           fetches |-> 0, outcome |-> "none"]>>
    /\ seqCall = <<>> /\ queueCall = <<>> /\ parseCall = <<>>

NextGateway == GatewayFetch

SpecGateway == InitGateway /\ [][NextGateway]_vars

(* ---- parsePromptWithAI(env, prompt) and fallbackParsing(prompt) ---- *)

(* A string is the sequence of its characters. *)
UpperCase == <<"A", "B", "C", "D", "E", "F", "G", "H", "I", "J", "K", "L", "M", "N", "O", "P", "Q", "R", "S", "T", "U", "V", "W", "X", "Y", "Z">>
LowerCase == <<"a", "b", "c", "d", "e", "f", "g", "h", "i", "j", "k", "l", "m", "n", "o", "p", "q", "r", "s", "t", "u", "v", "w", "x", "y", "z">>
Digits == <<"0", "1", "2", "3", "4", "5", "6", "7", "8", "9">>

IndexIn(seq, c) == CHOOSE i \in 1..Len(seq) : seq[i] = c
IsIn(seq, c) == \E i \in 1..Len(seq) : seq[i] = c

(* String.prototype.toLowerCase and toUpperCase *)
toLowerCase(str) ==
    [i \in 1..Len(str) |->
        IF IsIn(UpperCase, str[i]) THEN LowerCase[IndexIn(UpperCase, str[i])]
        ELSE str[i]]
toUpperCase(str) ==
    [i \in 1..Len(str) |->
        IF IsIn(LowerCase, str[i]) THEN UpperCase[IndexIn(LowerCase, str[i])]
        ELSE str[i]]

(* String.prototype.includes *)
includes(str, search) ==
    \E i \in 0..(Len(str) - Len(search)) :
        SubSeq(str, i + 1, i + Len(search)) = search

(* the entries of furnitureTypes in the order Object.entries gives them *)
furnitureTypes ==
    << <<<<"s", "o", "f", "a">>, "sofa">>,
       <<<<"c", "o", "u", "c", "h">>, "sofa">>,
       <<<<"c", "h", "a", "i", "r">>, "chair">>,
       <<<<"s", "e", "a", "t">>, "chair">>,
       <<<<"t", "a", "b", "l", "e">>, "table">>,
       <<<<"d", "e", "s", "k">>, "desk">>,
       <<<<"b", "e", "d">>, "bed">>,
       <<<<"b", "o", "o", "k", "c", "a", "s", "e">>, "bookcase">>,
       <<<<"b", "o", "o", "k", "s", "h", "e", "l", "f">>, "bookcase">>,
       <<<<"w", "a", "r", "d", "r", "o", "b", "e">>, "wardrobe">>,
       <<<<"c", "l", "o", "s", "e", "t">>, "wardrobe">>,
       <<<<"k", "i", "t", "c", "h", "e", "n">>, "kitchen">>,
       <<<<"f", "r", "i", "d", "g", "e">>, "fridge">>,
       <<<<"r", "e", "f", "r", "i", "g", "e", "r", "a", "t", "o", "r">>, "fridge">>,
       <<<<"s", "i", "n", "k">>, "sink">>,
       <<<<"t", "v">>, "tv">>,
       <<<<"t", "e", "l", "e", "v", "i", "s", "i", "o", "n">>, "tv">> >>

(* parseInt of a run of digits *)
RECURSIVE parseInt(_)
parseInt(str) ==
    IF str = <<>> THEN 0
    ELSE 10 * parseInt(SubSeq(str, 1, Len(str) - 1))
         + (IndexIn(Digits, str[Len(str)]) - 1)

(* the last index of the run of digits that starts at i, and the first     *)
(* index from i on that holds no blank                                     *)
RECURSIVE digitsEnd(_, _)
digitsEnd(str, i) ==
    IF i < Len(str) /\ IsIn(Digits, str[i + 1]) THEN digitsEnd(str, i + 1)
    ELSE i
RECURSIVE skipBlanks(_, _)
skipBlanks(str, i) ==
    IF i <= Len(str) /\ str[i] = " " THEN skipBlanks(str, i + 1) ELSE i

(* the match of /(\d+)\s*,\s*(\d+)/ that starts at i: <<>> or <<[x, y]>> *)
coordMatchAt(str, i) ==
    IF ~IsIn(Digits, str[i]) THEN <<>>
    ELSE LET k == digitsEnd(str, i)
             c == skipBlanks(str, k + 1)
         IN  IF c > Len(str) \/ str[c] # "," THEN <<>>
             ELSE LET m == skipBlanks(str, c + 1)
                  IN  IF m > Len(str) \/ ~IsIn(Digits, str[m]) THEN <<>>
                      ELSE <<[x |-> parseInt(SubSeq(str, i, k)),
                              y |-> parseInt(SubSeq(str, m, digitsEnd(str, m)))]>>

(* lowerPrompt.match(...): the leftmost match, null when there is none *)
coordMatch(str) ==
    LET starts == {i \in 1..Len(str) : coordMatchAt(str, i) # <<>>}
    IN  IF starts = {} THEN <<>>
        ELSE coordMatchAt(str, CHOOSE i \in starts : \A j \in starts : i <= j)

Clarify(question, reasoning) ==
    [command |-> "CLARIFY", question |-> question, reasoning |-> reasoning]

(* the rest of fallbackParsing once no furniture keyword was found *)
fallbackNoItem(lowerPrompt) ==
    IF includes(lowerPrompt, <<"w", "a", "l", "l">>)
       \/ includes(lowerPrompt, <<"d", "r", "a", "w">>)
    THEN [command |-> "ADD_WALL", reasoning |-> "Detected request to add wall"]
    ELSE IF includes(lowerPrompt, <<"3", "d">>)
            \/ includes(lowerPrompt,
                        <<"t", "h", "r", "e", "e", " ", "d", "i", "m", "e",
                          "n", "s", "i", "o", "n", "a", "l">>)
    THEN [command |-> "MODE_3D", reasoning |-> "Switching to 3D view"]
    ELSE IF includes(lowerPrompt, <<"2", "d">>)
    THEN [command |-> "MODE_2D", reasoning |-> "Switching to 2D view"]
    ELSE IF includes(lowerPrompt, <<"l", "o", "a", "d">>)
            \/ includes(lowerPrompt, <<"o", "p", "e", "n">>)
    THEN Clarify("Which plan would you like to load?", "Need plan ID to load")
    ELSE Clarify("I'm not sure what you want to do.",
                 "Unable to parse the request")

(* fallbackParsing matching the keywords against the prompt as typed *)
fallbackParsing_caseSensitive(prompt) ==
    LET lowerPrompt == prompt
        found == {i \in 1..Len(furnitureTypes) :
                     includes(lowerPrompt, furnitureTypes[i][1])}
    IN  IF found # {}
        THEN LET first == CHOOSE i \in found : \A j \in found : i <= j
                 itemType == furnitureTypes[first][2]
             IN  [command |-> "ADD_ITEM", itemType |-> itemType,
                  position |-> coordMatch(lowerPrompt),
                  reasoning |-> "Detected request to add " \o itemType]
        ELSE fallbackNoItem(lowerPrompt)

fallbackParsing(prompt) ==
    LET lowerPrompt == toLowerCase(prompt)
        found == {i \in 1..Len(furnitureTypes) :
                     includes(lowerPrompt, furnitureTypes[i][1])}
    IN  IF found # {}
        THEN LET first == CHOOSE i \in found : \A j \in found : i <= j
                 itemType == furnitureTypes[first][2]
             IN  [command |-> "ADD_ITEM", itemType |-> itemType,
                  position |-> coordMatch(lowerPrompt),
                  reasoning |-> "Detected request to add " \o itemType]
        ELSE fallbackNoItem(lowerPrompt)

(* The text of the model's answer is a sequence of tokens: the braces, a   *)
(* member of an object ("command": "MODE_3D") and any other text.          *)
Tokens == {"{", "}", "member", "prose"}

(* response.response.match(/\{[\s\S]*\}/): from the first "{" to the last  *)
(* "}" after it; <<>> when there is no such pair                           *)
jsonMatch(text) ==
    LET opens == {i \in 1..Len(text) : text[i] = "{"}
    IN  IF opens = {} THEN <<>>
        ELSE LET first == CHOOSE i \in opens : \A j \in opens : i <= j
                 closes == {i \in (first + 1)..Len(text) : text[i] = "}"}
             IN  IF closes = {} THEN <<>>
                 ELSE <<SubSeq(text, first,
                               CHOOSE i \in closes : \A j \in closes : j <= i)>>

(* the text of one JSON object: braces around members *)
IsObjectText(text) ==
    /\ Len(text) >= 2
    /\ text[1] = "{"
    /\ text[Len(text)] = "}"
    /\ \A i \in 2..(Len(text) - 1) : text[i] = "member"

(* JSON.parse: <<>> when it throws, else the object *)
JSONparse(text) ==
    IF IsObjectText(text)
    THEN <<[command |-> IF Len(text) > 2 THEN "MODE_3D" ELSE "undefined",
            members |-> Len(text) - 2]>>
    ELSE <<>>

(* what env.AI.run does: it throws, it gives an answer without the field   *)
(* response, or an answer with a text                                      *)
AiAnswers ==
    {[kind |-> "throw", text |-> <<>>], [kind |-> "noText", text |-> <<>>]}
    \cup {[kind |-> "text", text |-> text] : text \in SeqUpTo(Tokens, MaxTextLen)}

parsePromptWithAI(prompt, ai) ==
    IF ai.kind = "throw" THEN fallbackParsing(prompt)
    ELSE IF ai.kind = "noText" THEN fallbackParsing(prompt)
    ELSE LET match == jsonMatch(ai.text)
         IN  IF match = <<>> THEN fallbackParsing(prompt)
             ELSE IF JSONparse(match[1]) = <<>> THEN fallbackParsing(prompt)
             ELSE JSONparse(match[1])[1]

(* the prompts: up to MaxWords of these words with blanks between them *)
Words ==
    {<<"S", "O", "F", "A">>,
     <<"t", "v">>,
     <<"b", "e", "d">>,
     <<"w", "a", "l", "l">>,
     <<"D", "r", "a", "w">>,
     <<"3", "D">>,
     <<"2", "d">>,
     <<"l", "o", "a", "d">>,
     <<"h", "e", "l", "l", "o">>,
     <<"1", "2", ",", "7">>}

RECURSIVE join(_)
join(ws) ==
    IF Len(ws) = 0 THEN <<>>
    ELSE IF Len(ws) = 1 THEN ws[1]
    ELSE ws[1] \o <<" ">> \o join(Tail(ws))

Prompts == {join(ws) : ws \in SeqUpTo(Words, MaxWords)}

ParsePromptWithAI ==
    /\ parseCall # <<>>
    /\ ~parseCall[1].done
    /\ parseCall' = <<[parseCall[1] EXCEPT
                          !.done = TRUE,
                          !.result = <<parsePromptWithAI(parseCall[1].prompt,
                                                         parseCall[1].ai)>>]>>
    /\ UNCHANGED <<actor, seqCall, queueCall, gatewayCall>>

InitParse ==
    /\ NoActor
    /\ \E prompt \in Prompts, ai \in AiAnswers :
          parseCall = <<[prompt |-> prompt, ai |-> ai, done |-> FALSE,
                         result |-> <<>>]>>
    /\ seqCall = <<>> /\ queueCall = <<>> /\ gatewayCall = <<>>

NextParse == ParsePromptWithAI

SpecParse == InitParse /\ [][NextParse]_vars

-----------------------------------------------------------------------------
(* Properties *)

Loaded(s) == sessionMetadata[s] # <<>>

(* the modification log an operation on s starts from: the one in memory,  *)
(* or the one initialize will load                                         *)
Log(s) ==
    IF sessionMetadata[s] # <<>> THEN sessionMetadata[s][1].modifications
    ELSE IF storage[s] # <<>> THEN storage[s][1].modifications
    ELSE <<>>

Entry(l) == [timestamp |-> l.time, command |-> l.command, params |-> l.params]

(* the step starts the operation op *)
Starts(op) == now' # now /\ last'.op = op

(* the condition under which the alarm handler is to save *)
AutosaveDue(s) ==
    /\ Loaded(s)
    /\ sessionMetadata[s][1].planId # NoPlan
    /\ Len(sessionMetadata[s][1].modifications) > 0

(* C1: every run of the alarm handler leaves the next trigger set to the   *)
(* time of the run plus 300 seconds, whether the save was skipped,         *)
(* succeeded or threw.                                                     *)
C1_AlarmAlwaysReschedules ==
    last.op = "alarm" =>
        alarmTime[last.session] = <<last.time + AlarmIntervalMs>>

(* C2: executeCommand appends exactly one entry {timestamp, command,       *)
(* params} at the end of the log when the container reports success, and   *)
(* otherwise leaves the log as it was; a result with success = false is    *)
(* returned unchanged.                                                     *)
C2_LogGatedOnSuccess ==
    [][Starts("executeCommand") =>
        LET s == last'.session
            after == sessionMetadata'[s][1].modifications
        IN  IF last'.resp.kind = "json" /\ last'.resp.success
            THEN after = Append(Log(s), Entry(last'))
            ELSE /\ after = Log(s)
                 /\ last'.resp.kind = "json" =>
                        /\ last'.outcome = "return"
                        /\ last'.result = last'.resp]_vars

C2_Witness ==
    /\ last.op = "executeCommand"
    /\ last.resp.success
    /\ Len(sessionMetadata[last.session][1].modifications) = 2
    /\ sessionMetadata[last.session][1].modifications[1].command = "LOAD_PROJECT"

(* C3: when the container reports success, the durable slot holds the      *)
(* metadata with the new entry when executeCommand returns; when it        *)
(* reports success = false, executeCommand writes nothing to durable       *)
(* storage.                                                                *)
C3_PersistOnSuccessOnly ==
    [][(Starts("executeCommand") /\ last'.resp.kind = "json") =>
        LET s == last'.session
        IN  IF last'.resp.success
            THEN /\ last'.outcome = "return"
                 /\ storage'[s] = sessionMetadata'[s]
                 /\ storage'[s][1].modifications = Append(Log(s), Entry(last'))
            ELSE /\ last'.writes = 0
                 /\ storage' = storage]_vars

C3_Witness ==
    /\ last.op = "executeCommand"
    /\ last.resp.kind = "json"
    /\ ~last.resp.success
    /\ last.command = "ADD_ITEM"
    /\ storage[last.session] # <<>>
    /\ Len(storage[last.session][1].modifications) = 1

(* C4: the log of every actor lists exactly the commands the container     *)
(* reported as successful, in the order in which they were issued.         *)
CommandsOf(log) ==
    [i \in 1..Len(log) |-> [command |-> log[i].command, params |-> log[i].params]]

C4_LogIsIssueOrder ==
    \A s \in Sessions : CommandsOf(Log(s)) = issued[s]

C4_Witness ==
    /\ Len(issued["A"]) = 2
    /\ issued["A"][1] # issued["A"][2]
    /\ Loaded("A")
    /\ last.op = "executeCommand"
    /\ ~last.resp.success

(* C5: an operation on one session changes neither the metadata, nor the   *)
(* durable slot, nor the handle, nor the number of handle acquisitions of  *)
(* any other session.                                                      *)
C5_SessionsIndependent ==
    [][\A b \in Sessions : b # last'.session =>
          /\ sessionMetadata'[b] = sessionMetadata[b]
          /\ storage'[b] = storage[b]
          /\ containerInstance'[b] = containerInstance[b]
          /\ getCalls'[b] = getCalls[b]]_vars

C5_Witness ==
    /\ Loaded("A") /\ Loaded("B")
    /\ storage["A"] # <<>> /\ storage["B"] # <<>>
    /\ storage["A"] # storage["B"]
    /\ getCalls["A"] = 1 /\ getCalls["B"] = 1
    /\ last.session = "A"

(* C6: an actor instance asks the environment for a handle at most once,   *)
(* and every forward after the acquisition goes through that handle.       *)
C6_HandleAcquiredOnce ==
    /\ \A s \in Sessions :
          /\ getCalls[s] <= 1
          /\ containerInstance[s] # <<>> =>
                 getCalls[s] = 1 /\ containerInstance[s][1].serial = 1
    /\ last.forwards > 0 =>
          /\ last.handle # <<>>
          /\ last.handle = containerInstance[last.session]

C6_Witness ==
    /\ last.forwards = 1
    /\ last.gets = 0
    /\ getCalls[last.session] = 1

(* C7: once the metadata is loaded, initialize, called directly or at the  *)
(* start of an operation, keeps the same metadata object and reads nothing *)
(* from durable storage; called directly it leaves the contents as they    *)
(* are.                                                                    *)
C7_InitializeIdempotent ==
    [][(now' # now /\ last'.op # "constructor"
          /\ sessionMetadata[last'.session] # <<>>) =>
        /\ metaLoads' = metaLoads
        /\ last'.reads = 0
        /\ last'.op = "initialize" => sessionMetadata' = sessionMetadata]_vars

C7_Witness ==
    /\ last.op = "initialize"
    /\ last.reads = 0
    /\ Loaded(last.session)
    /\ storage[last.session] = <<>>
    /\ sessionMetadata[last.session][1].createdAt < last.time

(* C8: the alarm handler on an actor whose planId is null writes nothing   *)
(* to the plan store, whatever the log holds.                              *)
C8_NoAutosaveWithoutPlan ==
    [][(Starts("alarm") /\ Loaded(last'.session)
          /\ sessionMetadata[last'.session][1].planId = NoPlan) =>
        /\ planStore' = planStore
        /\ last'.planPuts = 0]_vars

C8_Witness ==
    /\ last.op = "alarm"
    /\ Loaded(last.session)
    /\ sessionMetadata[last.session][1].planId = NoPlan
    /\ Len(sessionMetadata[last.session][1].modifications) > 0
    /\ last.resp.success
    /\ last.planPutOk

C10_AlarmSavesPlan ==
    [][(/\ Starts("alarm")
        /\ AutosaveDue(last'.session)
        /\ last'.resp.kind = "json" /\ last'.resp.success
        /\ last'.planPutOk) =>
        LET s == last'.session
            planId == sessionMetadata[s][1].planId
        IN  /\ last'.forwards = 1
            /\ last'.planPuts = 1
            /\ planStore'[PlanKey(planId)] # <<>>
            /\ planStore'[PlanKey(planId)][1].body = stringify(last'.resp.data)
            /\ sessionMetadata'[s][1].planId = planId]_vars

(* the metadata an operation on s starts from: the object in memory, or    *)
(* the one initialize will load or create                                  *)
Meta(s) ==
    IF sessionMetadata[s] # <<>> THEN sessionMetadata[s][1]
    ELSE IF storage[s] # <<>> THEN storage[s][1]
    ELSE DefaultMetadata

(* C11: when savePlan(p) has returned, the plan store entry of p holds the *)
(* state getState returned during the save, planId = p and lastSaved is    *)
(* the time of the write, in memory and in the durable slot, and the       *)
(* result is {success: true, planId: p, key: the key written}.             *)
C11_SaveRoundTrip ==
    (last.op = "savePlan" /\ last.outcome = "return") =>
        LET s == last.session
            p == last.planId
        IN  /\ planStore[PlanKey(p)] # <<>>
            /\ parse(planStore[PlanKey(p)][1].body) = last.resp.data
            /\ last.resp.kind = "json" /\ last.resp.success
            /\ sessionMetadata[s][1].planId = p
            /\ sessionMetadata[s][1].lastSaved = last.time
            /\ storage[s] = sessionMetadata[s]
            /\ last.result = [success |-> TRUE, planId |-> p, key |-> PlanKey(p)]

C11_Witness ==
    /\ last.op = "savePlan"
    /\ last.outcome = "return"
    /\ last.planId = "p2"
    /\ last.resp.data = "s2"
    /\ Len(sessionMetadata[last.session][1].modifications) > 0
    /\ planStore[PlanKey("p1")] # <<>>

(* C12, as the claim has it: the key savePlan(p) writes is "plans/"        *)
(* followed by p and nothing else.                                         *)
C12_PlanKeyBare ==
    (last.op = "savePlan" /\ last.outcome = "return") =>
        last.result.key = "plans/" \o last.planId

(* C12, amended: the key savePlan(p) writes and loadPlan(p) reads is       *)
(* "plans/" followed by p and the suffix ".json".                          *)
C12_PlanKeyJson ==
    LET key == "plans/" \o last.planId \o ".json"
    IN  /\ (last.op = "savePlan" /\ last.outcome = "return") =>
              /\ last.result.key = key
              /\ \E k \in DOMAIN planStore :
                    /\ k = key
                    /\ planStore[k] # <<>>
                    /\ planStore[k][1].sessionId = last.session
                    /\ planStore[k][1].savedAt = last.time
        /\ last.op = "loadPlan" =>
              (last.forwards = 0 <=>
                  \A k \in DOMAIN planStore : k = key => planStore[k] = <<>>)

C12_Witness ==
    /\ last.op = "loadPlan"
    /\ last.forwards = 1
    /\ last.planId = "p2"
    /\ planStore[PlanKey("p1")] = <<>>

(* C13: loadPlan(p) for a plan that is not in the plan store raises        *)
(* PlanNotFound naming p, forwards nothing to the container, writes        *)
(* nothing to durable storage and leaves planId and the log as they were.  *)
C13_LoadNotFound ==
    [][(Starts("loadPlan") /\ planStore[PlanKey(last'.planId)] = <<>>) =>
        LET s == last'.session
        IN  /\ last'.outcome = "throw"
            /\ last'.error = "PlanNotFound:" \o last'.planId
            /\ last'.forwards = 0
            /\ last'.writes = 0
            /\ storage' = storage
            /\ planStore' = planStore
            /\ sessionMetadata'[s] = <<Meta(s)>>]_vars

C13_Witness ==
    /\ last.op = "loadPlan"
    /\ last.error = "PlanNotFound:p2"
    /\ sessionMetadata[last.session][1].planId = "p1"
    /\ Len(sessionMetadata[last.session][1].modifications) > 0

(* C14: when getState inside savePlan(p) reports success = false, savePlan *)
(* raises SaveFailed, does not write the plan store and leaves planId,     *)
(* lastSaved and the durable metadata as they were.                        *)
C14_SaveFailed ==
    [][(Starts("savePlan") /\ last'.resp.kind = "json" /\ ~last'.resp.success) =>
        LET s == last'.session
        IN  /\ last'.outcome = "throw"
            /\ last'.error = "SaveFailed"
            /\ last'.planPuts = 0
            /\ planStore' = planStore
            /\ saving' = saving
            /\ storage' = storage
            /\ sessionMetadata'[s] = <<Meta(s)>>]_vars

C14_Witness ==
    /\ last.op = "savePlan"
    /\ last.error = "SaveFailed"
    /\ last.planId = "p2"
    /\ sessionMetadata[last.session][1].planId = "p1"
    /\ sessionMetadata[last.session][1].lastSaved < last.time

(* C15: when loadPlan(p) has returned, planId = p in memory and in the     *)
(* durable slot, whether LOAD_PROJECT reported success or not.             *)
C15_LoadSetsPlanId ==
    (last.op = "loadPlan" /\ last.outcome = "return") =>
        LET s == last.session
        IN  /\ sessionMetadata[s][1].planId = last.planId
            /\ storage[s] = sessionMetadata[s]
            /\ last.result = last.resp

C15_Witness ==
    /\ last.op = "loadPlan"
    /\ last.outcome = "return"
    /\ ~last.resp.success
    /\ last.planId = "p1"
    /\ sessionMetadata[last.session][1].lastSaved # NoTime
    /\ planStore[PlanKey("p2")] # <<>>

(* the operations that forward one request and do nothing else *)
ForwardOnly == {"dispatchAction", "getState", "executeScript", "takeScreenshot"}
Forwarding == ForwardOnly \cup {"executeCommand"}

(* C16: loadPlan(p) for a plan that is in the plan store forwards exactly  *)
(* one LOAD_PROJECT command carrying the stored plan content, the way      *)
(* executeCommand does: the log gains exactly one LOAD_PROJECT entry when  *)
(* the container reports success and none when it reports a failure.       *)
C16_LoadForwardsOnce ==
    [][(Starts("loadPlan") /\ planStore[PlanKey(last'.planId)] # <<>>) =>
        LET s == last'.session
            planData == parse(planStore[PlanKey(last'.planId)][1].body)
            entry == [timestamp |-> now, command |-> "LOAD_PROJECT",
                      params |-> planData]
        IN  /\ last'.forwards = 1
            /\ Len(last'.sent) = 1
            /\ last'.sent[1].path = "/command"
            /\ parse(last'.sent[1].body[1]) =
                   [command |-> "LOAD_PROJECT", params |-> planData]
            /\ lastActivity'[s] = now
            /\ last'.resp.kind = "json" =>
                  sessionMetadata'[s][1].modifications =
                      IF last'.resp.success
                      THEN Append(Meta(s).modifications, entry)
                      ELSE Meta(s).modifications
            /\ last'.resp.kind = "throw" =>
                  sessionMetadata'[s] = <<Meta(s)>>]_vars

C16_Witness ==
    /\ last.op = "loadPlan"
    /\ last.outcome = "return"
    /\ last.resp.success
    /\ Len(last.sent) = 1
    /\ parse(last.sent[1].body[1]).params = "s2"
    /\ Len(sessionMetadata[last.session][1].modifications) = 2

(* C17: dispatchAction, getState, executeScript and takeScreenshot never   *)
(* change the metadata (log, planId, createdAt, lastSaved, the durable     *)
(* slot) and return the container's result as it came.                     *)
C17_ForwardOnlyKeepsMetadata ==
    [][(\E op \in ForwardOnly : Starts(op)) =>
        LET s == last'.session
        IN  /\ sessionMetadata'[s] = <<Meta(s)>>
            /\ storage' = storage
            /\ planStore' = planStore
            /\ last'.writes = 0
            /\ last'.resp.kind = "json" =>
                  /\ last'.outcome = "return"
                  /\ last'.result = last'.resp]_vars

C17_Witness ==
    /\ last.op = "dispatchAction"
    /\ last.outcome = "return"
    /\ last.result.success
    /\ Len(sessionMetadata[last.session][1].modifications) > 0
    /\ sessionMetadata[last.session][1].planId # NoPlan

(* C18: every call of executeCommand, dispatchAction, getState,            *)
(* executeScript and takeScreenshot sets lastActivity to the time of the   *)
(* call, whether the container reported success, a failure, or the         *)
(* transport failed.                                                       *)
C18_ActivityStamped ==
    last.op \in Forwarding => lastActivity[last.session] = last.time

C18_Witness ==
    /\ last.op = "executeCommand"
    /\ last.resp = Thrown
    /\ last.time > 1
    /\ lastActivity[last.session] = last.time
    /\ sessionMetadata[last.session] # <<>>

(* C19: when the transport to the container fails, the operation fails     *)
(* with that error after exactly one forward attempt, and executeCommand   *)
(* leaves the log and the durable metadata as they were.                   *)
C19_TransportErrorPropagates ==
    [][((\E op \in Forwarding : Starts(op)) /\ last'.resp = Thrown) =>
        LET s == last'.session
        IN  /\ last'.outcome = "throw"
            /\ last'.error = "TransportFailure"
            /\ last'.forwards = 1
            /\ Len(last'.sent) = 1
            /\ last'.op = "executeCommand" =>
                  /\ sessionMetadata'[s] = <<Meta(s)>>
                  /\ storage' = storage
                  /\ issued' = issued]_vars

C19_Witness ==
    /\ last.op = "executeCommand"
    /\ last.outcome = "throw"
    /\ last.error = "TransportFailure"
    /\ last.forwards = 1
    /\ Len(sessionMetadata[last.session][1].modifications) > 0

(* C20: fetch never throws: every error raised while it serves a request,  *)
(* the one of the initialize call it starts with and the one of reading    *)
(* the request body included, becomes a response with status 500 that      *)
(* carries the error's message.                                            *)
C20_FetchNeverThrows ==
    last.op = "fetch" =>
        /\ last.outcome = "return"
        /\ last.error # "none" =>
              /\ last.result.status = 500
              /\ last.result.body = [success |-> FALSE, error |-> last.error]

(* C21: a request to fetch on a path that is none of the eight known ones  *)
(* is answered with status 404 and runs no operation of the actor: nothing *)
(* is forwarded, no handle is acquired, the log and the durable slot stay  *)
(* as they were.  (storage.get resolving, as everywhere outside C20.)      *)
C21_UnknownPathNotFound ==
    [][(Starts("fetch") /\ last'.path \notin KnownPaths /\ last'.getOk) =>
        LET s == last'.session
        IN  /\ last'.outcome = "return"
            /\ last'.result = Response(404, [error |-> "Not found"])
            /\ last'.forwards = 0
            /\ last'.sent = <<>>
            /\ last'.gets = 0
            /\ last'.writes = 0
            /\ last'.planPuts = 0
            /\ containerInstance' = containerInstance
            /\ getCalls' = getCalls
            /\ lastActivity' = lastActivity
            /\ sessionMetadata'[s] = <<Meta(s)>>
            /\ storage' = storage
            /\ planStore' = planStore]_vars

C21_Witness ==
    /\ last.op = "fetch"
    /\ last.path = "/unknown"
    /\ last.outcome = "return"
    /\ last.result.status = 404
    /\ containerInstance[last.session] = <<>>
    /\ sessionMetadata[last.session] # <<>>
    /\ storage[last.session] # <<>>

(* the createdAt a session has: the one in memory, else the one in the     *)
(* durable slot, else none                                                 *)
CreatedAt(s) ==
    IF sessionMetadata[s] # <<>> THEN <<sessionMetadata[s][1].createdAt>>
    ELSE IF storage[s] # <<>> THEN <<storage[s][1].createdAt>>
    ELSE <<>>

(* C22: the createdAt of a session, once set by the first initialization,  *)
(* keeps its value over every operation and over the eviction and          *)
(* reconstruction of the actor.                                            *)
C22_CreatedAtSetOnce ==
    [][\A s \in Sessions :
          CreatedAt(s) # <<>> => CreatedAt(s)' = CreatedAt(s)]_vars

(* <<a1, .., an>> is the beginning of b *)
IsPrefix(a, b) ==
    /\ Len(a) <= Len(b)
    /\ \A i \in 1..Len(a) : a[i] = b[i]

(* C23: the modification log is append-only: over every step (savePlan,    *)
(* loadPlan, the alarm and the eviction included) the log before the step  *)
(* is a prefix of the log after it.                                        *)
C23_LogAppendOnly ==
    [][\A s \in Sessions : IsPrefix(Log(s), Log(s)')]_vars

C23_Witness ==
    /\ last.op = "savePlan"
    /\ last.outcome = "return"
    /\ Len(Log(last.session)) = 2
    /\ Log(last.session)[1].command = "ADD_ITEM"
    /\ Log(last.session)[2].command = "ADD_ITEM"
    /\ Log(last.session)[1].timestamp < Log(last.session)[2].timestamp

(* the step in which savePlan of s comes back from PLANNER_STORAGE.put *)
SaveWrites(s) == saving[s] # <<>> /\ saving'[s] = <<>>

(* C24: when sessions save to the same plan identifier, each write of the  *)
(* plan store replaces what is there, whoever wrote it, with no error and  *)
(* no version check, so the entry holds the state of the save that wrote   *)
(* last; the writing session's planId and lastSaved are updated and the    *)
(* other session's metadata is left alone.                                 *)
C24_LastWriteWins ==
    [][\A s \in Sessions :
          (SaveWrites(s) /\ last'.planPutOk) =>
              LET p == saving[s][1].planId
                  state == saving[s][1].resp.data
              IN  /\ last'.outcome = "return"
                  /\ planStore'[PlanKey(p)] =
                         <<[body |-> stringify(state), sessionId |-> s,
                            savedAt |-> now]>>
                  /\ \A k \in DOMAIN planStore :
                         k # PlanKey(p) => planStore'[k] = planStore[k]
                  /\ sessionMetadata'[s][1].planId = p
                  /\ sessionMetadata'[s][1].lastSaved = now
                  /\ storage'[s] = sessionMetadata'[s]
                  /\ \A o \in Sessions \ {s} :
                         /\ sessionMetadata'[o] = sessionMetadata[o]
                         /\ storage'[o] = storage[o]]_vars

C24_Witness ==
    /\ last.op = "savePlan"
    /\ last.outcome = "return"
    /\ last.session = "A"
    /\ last.planId = "p1"
    /\ planStore[PlanKey("p1")][1].sessionId = "A"
    /\ parse(planStore[PlanKey("p1")][1].body) = "s1"
    /\ sessionMetadata["B"] # <<>>
    /\ sessionMetadata["B"][1].planId = "p1"
    /\ sessionMetadata["B"][1].lastSaved # NoTime
    /\ sessionMetadata["A"][1].lastSaved # NoTime

(* C30: a command name outside ADD_ITEM, ADD_WALL, MODE_2D, MODE_3D and    *)
(* LOAD_PROJECT is answered by the container with success = false and no   *)
(* action is dispatched for it, so no session's log, in memory or in the   *)
(* durable slot, ever holds an entry with such a name.                     *)
C30_UnknownCommandRejected ==
    /\ \A command \in Commands \ KnownCommands, pageOk \in BOOLEAN :
          /\ ~commandHandler(command, pageOk).resp.success
          /\ commandHandler(command, pageOk).dispatched = 0
    /\ \A resp \in UNION {CommandResponses(c) : c \in Commands \ KnownCommands} :
          ~resp.success
    /\ \A s \in Sessions :
          /\ \A i \in 1..Len(Log(s)) : Log(s)[i].command \in KnownCommands
          /\ storage[s] # <<>> =>
                \A i \in 1..Len(storage[s][1].modifications) :
                    storage[s][1].modifications[i].command \in KnownCommands
    /\ (last.op = "executeCommand" /\ last.command \notin KnownCommands
          /\ last.outcome = "return") =>
             /\ last.result = Json(FALSE, "unknown")
             /\ last.writes = 0

C30_Witness ==
    /\ last.op = "executeCommand"
    /\ last.command = "INVALID"
    /\ last.outcome = "return"
    /\ ~last.result.success
    /\ Len(Log(last.session)) = 2
    /\ last.forwards = 1

(* the first command of the call whose answer is not a success, or one     *)
(* past the end of the list                                                *)
FirstFailure(c) ==
    LET bad == {i \in 1..Len(c.commands) :
                   c.answers[i].kind = "throw" \/ ~c.answers[i].success}
    IN  IF bad = {} THEN Len(c.commands) + 1
        ELSE CHOOSE i \in bad : \A j \in bad : i <= j

MinOf(a, b) == IF a <= b THEN a ELSE b

(* C25: executeCommandSequence sends the commands one at a time in list    *)
(* order and stops after the first one whose result has success = false:   *)
(* results has one entry per command sent, in order, every entry but the   *)
(* last has success = true, and no command after the failed one is sent.   *)
C25_SequenceStopsOnFailure ==
    (seqCall # <<>> /\ seqCall[1].done) =>
        LET c == seqCall[1]
            n == MinOf(FirstFailure(c), Len(c.commands))
        IN  /\ c.sent = SubSeq(c.commands, 1, n)
            /\ Len(c.results) = Len(c.sent)
            /\ \A i \in 1..Len(c.results) :
                  /\ c.results[i].command = c.commands[i].command
                  /\ c.results[i].params = c.commands[i].params
                  /\ i < Len(c.results) => c.results[i].success
                  /\ c.answers[i].kind = "json" =>
                        /\ c.results[i].success = c.answers[i].success
                        /\ c.results[i].result = c.answers[i]

C25_Witness ==
    /\ seqCall # <<>>
    /\ seqCall[1].done
    /\ Len(seqCall[1].commands) = 3
    /\ Len(seqCall[1].results) = 2
    /\ seqCall[1].results[1].success
    /\ seqCall[1].answers[2] = Json(FALSE, "unknown")
    /\ seqCall[1].answers[3].success

(* C26: executeCommandSequence never throws: when sending a command throws *)
(* it records {command, params, success: false, error: the message} for    *)
(* that command, sends nothing more and returns the results so far.        *)
C26_SequenceNeverThrows ==
    (seqCall # <<>> /\ seqCall[1].done) =>
        LET c == seqCall[1]
            f == FirstFailure(c)
        IN  /\ c.outcome = "return"
            /\ (f <= Len(c.commands) /\ c.answers[f].kind = "throw") =>
                  /\ Len(c.results) = f
                  /\ Len(c.sent) = f
                  /\ c.results[f] = [command |-> c.commands[f].command,
                                     params |-> c.commands[f].params,
                                     success |-> FALSE,
                                     error |-> c.answers[f].data]
                  /\ \A i \in 1..(f - 1) : c.results[i].result = c.answers[i]

C26_Witness ==
    /\ seqCall # <<>>
    /\ seqCall[1].done
    /\ Len(seqCall[1].commands) = 3
    /\ seqCall[1].answers[1].kind = "json"
    /\ seqCall[1].answers[2] = Thrown
    /\ Len(seqCall[1].results) = 2
    /\ seqCall[1].results[2].error = "network"

(* C27: the queue consumer settles every message of the batch exactly      *)
(* once, in batch order: with ack when processing the task threw nothing,  *)
(* with retry and no ack when it threw; a failing message does not keep    *)
(* the later ones from being processed.                                    *)
C27_QueueSettlesEach ==
    (queueCall # <<>> /\ queueCall[1].done) =>
        LET c == queueCall[1]
        IN  /\ c.outcome = "return"
            /\ Len(c.settled) = Len(c.messages)
            /\ \A i \in 1..Len(c.settled) :
                  /\ c.settled[i].message = i
                  /\ c.settled[i].how =
                        IF processMessage(c.messages[i], c.answers[i]).threw
                        THEN "retry" ELSE "ack"
            /\ \A i \in 1..Len(c.messages) :
                  (c.messages[i] # <<>> /\ c.messages[i][1].params # <<>>
                      /\ c.messages[i][1].task \in {"AUTO_SAVE", "EXECUTE_COMMAND"})
                  => c.settled[i].how =
                        IF c.answers[i].kind = "throw" THEN "retry" ELSE "ack"

C27_Witness ==
    /\ queueCall # <<>>
    /\ queueCall[1].done
    /\ Len(queueCall[1].messages) = 2
    /\ queueCall[1].messages[1] # <<>>
    /\ queueCall[1].messages[1][1].task = "EXECUTE_COMMAND"
    /\ queueCall[1].answers[1] = Thrown
    /\ queueCall[1].settled[1].how = "retry"
    /\ queueCall[1].settled[2].how = "ack"
    /\ queueCall[1].fetches = 2

(* the request lacks a field its path requires *)
LacksRequired(req) ==
    \/ req.path \in {"/session/", "/screenshot"} /\ req.sessionId = <<>>
    \/ /\ req.path \in {"/modify", "/command", "/save", "/load"}
       /\ \/ req.sessionId = <<>>
          \/ req.path = "/modify" /\ req.prompt = <<>>
          \/ req.path = "/command" /\ req.command = <<>>
          \/ req.path \in {"/save", "/load"} /\ req.planId = <<>>

(* the request gets as far as the check of its fields: it is not a         *)
(* preflight, is authorized, has the method and a body the handler reads   *)
ReachesValidation(req, env) ==
    /\ req.method # "OPTIONS"
    /\ verifyAuth(req, env)
    /\ req.path \in {"/modify", "/command", "/save", "/load"} =>
          req.method = "POST" /\ req.bodyOk

HoldsObject(text) ==
    \E i \in 1..Len(text) : \E j \in i..Len(text) :
        IsObjectText(SubSeq(text, i, j))

(* the command the keywords of the lowered prompt stand for, in the order  *)
(* furniture, wall or draw, 3d, 2d, anything else                          *)
KeywordCommand(lowerPrompt) ==
    IF \E i \in 1..Len(furnitureTypes) :
           includes(lowerPrompt, furnitureTypes[i][1])
    THEN "ADD_ITEM"
    ELSE IF includes(lowerPrompt, <<"w", "a", "l", "l">>)
            \/ includes(lowerPrompt, <<"d", "r", "a", "w">>)
    THEN "ADD_WALL"
    ELSE IF includes(lowerPrompt, <<"3", "d">>) THEN "MODE_3D"
    ELSE IF includes(lowerPrompt, <<"2", "d">>) THEN "MODE_2D"
    ELSE "CLARIFY"

(* C29: whenever the inference call throws or its answer holds no          *)
(* parseable JSON object, parsePromptWithAI returns fallbackParsing of the *)
(* prompt; that result is the same for the prompt in any letter case, its  *)
(* command is one of ADD_ITEM, ADD_WALL, MODE_3D, MODE_2D, CLARIFY, and it *)
(* is chosen by testing furniture keywords first, then wall/draw, then 3d, *)
(* then 2d, then load/open (CLARIFY), else CLARIFY.                        *)
C29_FallbackDeterministic ==
    (parseCall # <<>> /\ parseCall[1].done) =>
        LET c == parseCall[1]
            fb == fallbackParsing(c.prompt)
        IN  /\ (c.ai.kind \in {"throw", "noText"} \/ ~HoldsObject(c.ai.text))
                  => c.result = <<fb>>
            /\ fb.command \in {"ADD_ITEM", "ADD_WALL", "MODE_3D", "MODE_2D",
                               "CLARIFY"}
            /\ fallbackParsing(toUpperCase(c.prompt)) = fb
            /\ fallbackParsing(toLowerCase(c.prompt)) = fb
            /\ fb.command = KeywordCommand(toLowerCase(c.prompt))
            /\ (fb.command = "CLARIFY"
                   /\ includes(toLowerCase(c.prompt), <<"l", "o", "a", "d">>))
                  => fb.reasoning = "Need plan ID to load"

C29_Witness ==
    /\ parseCall # <<>>
    /\ parseCall[1].done
    /\ parseCall[1].ai = [kind |-> "text", text |-> <<"{", "prose", "}">>]
    /\ parseCall[1].prompt =
           <<"D", "r", "a", "w", " ", "S", "O", "F", "A">>
    /\ parseCall[1].result[1].command = "ADD_ITEM"
    /\ parseCall[1].result[1].itemType = "sofa"

(* the step is one in which a mutating operation on s comes back without   *)
(* an error: executeCommand with a result of success, savePlan or loadPlan *)
(* returning                                                               *)
MutationReturns(s) ==
    /\ last'.session = s
    /\ \/ /\ Starts("executeCommand")
          /\ last'.resp.kind = "json" /\ last'.resp.success
       \/ Starts("loadPlan") /\ last'.outcome = "return"
       \/ SaveWrites(s) /\ last'.outcome = "return"

(* C31: initialize writes nothing to durable storage.  While the durable   *)
(* slot of a session is absent, a step writes it exactly when it is a      *)
(* successful executeCommand, a savePlan that returns or a loadPlan that   *)
(* returns; initialize, getState, dispatchAction, executeScript,           *)
(* takeScreenshot, getMetadata, the alarm handler and every failed         *)
(* operation leave it absent.                                              *)
C31_LazyWrite ==
    [][\A s \in Sessions : storage[s] = <<>> =>
          /\ (storage'[s] # <<>>) <=> MutationReturns(s)
          /\ storage'[s] # <<>> => storage'[s] = sessionMetadata'[s]]_vars

C31_Witness ==
    /\ last.op = "executeCommand"
    /\ last.resp.kind = "json"
    /\ ~last.resp.success
    /\ last.gets = 0
    /\ last.reads = 0
    /\ Loaded(last.session)
    /\ getCalls[last.session] = 1
    /\ storage[last.session] = <<>>
    /\ now = 4

(* C32: the lifecycle of an actor instance only moves forward.  After      *)
(* every step a handle is held only if the metadata is loaded; and in a    *)
(* step that is not the construction of a new instance, loaded metadata    *)
(* stays loaded and a handle that is held stays the same handle.           *)
C32_LifecycleForward ==
    [][\A s \in Sessions :
          /\ containerInstance'[s] # <<>> => sessionMetadata'[s] # <<>>
          /\ ~(Starts("constructor") /\ last'.session = s) =>
                /\ Loaded(s) => sessionMetadata'[s] # <<>>
                /\ containerInstance[s] # <<>> =>
                       containerInstance'[s] = containerInstance[s]]_vars

C32_Witness ==
    /\ last.op = "dispatchAction"
    /\ last.reads = 0
    /\ last.gets = 0
    /\ last.forwards = 1
    /\ Loaded(last.session)
    /\ containerInstance[last.session] # <<>>
    /\ now = 4

(* C33: the handle an actor holds was requested under the actor's own      *)
(* session identity and has had its inactivity-sleep threshold set to      *)
(* 60000 ms by one call, the one at its acquisition, however many          *)
(* operations have used it since.                                          *)
C33_HandleConfiguredOnce ==
    /\ \A s \in Sessions : containerInstance[s] # <<>> =>
          /\ containerInstance[s][1].id = s
          /\ containerInstance[s][1].sleepAfter = 60000
          /\ containerInstance[s][1].sleepAfterCalls = 1
    /\ last.forwards > 0 =>
          /\ last.handle # <<>>
          /\ last.handle[1].id = last.session

C33_Witness ==
    /\ containerInstance["A"] # <<>>
    /\ containerInstance["B"] # <<>>
    /\ containerInstance["A"][1].id # containerInstance["B"][1].id
    /\ last.op = "takeScreenshot"
    /\ last.gets = 0
    /\ last.forwards = 1

(* the part of the metadata that mutating operations change *)
Durable(m) == <<m.modifications, m.planId, m.lastSaved>>

(* C34: eviction is a recovery path.  When the host replaces the instance, *)
(* the log, planId and lastSaved the next operation will load are those    *)
(* the discarded instance held; and an operation that starts on an         *)
(* instance without metadata reads the durable slot once, loads what the   *)
(* slot holds, and when it forwards it acquires one handle under the       *)
(* session's identity.                                                     *)
C34_EvictionRecovers ==
    [][/\ \A s \in Sessions :
              (Starts("constructor") /\ last'.session = s) =>
                  Durable(Meta(s))' = Durable(sessionMetadata[s][1])
       /\ (/\ now' # now
           /\ last'.op \notin {"constructor", "alarm"}
           /\ ~Loaded(last'.session)) =>
              LET s == last'.session
              IN  /\ last'.reads = 1
                  /\ metaLoads'[s] = 1
                  /\ sessionMetadata'[s] # <<>>
                  /\ storage[s] # <<>> =>
                        /\ sessionMetadata'[s][1].createdAt =
                               storage[s][1].createdAt
                        /\ IsPrefix(storage[s][1].modifications,
                                    sessionMetadata'[s][1].modifications)
                        /\ last'.op \in ForwardOnly \cup {"initialize", "getMetadata"}
                               => sessionMetadata'[s] = storage[s]
                  /\ last'.forwards > 0 =>
                        /\ last'.gets = 1
                        /\ getCalls'[s] = 1
                        /\ last'.handle[1].id = s]_vars

C34_Witness ==
    /\ last.op = "getState"
    /\ last.reads = 1
    /\ last.gets = 1
    /\ storage[last.session] # <<>>
    /\ sessionMetadata[last.session] = storage[last.session]
    /\ sessionMetadata[last.session][1].planId # NoPlan
    /\ sessionMetadata[last.session][1].lastSaved # NoTime
    /\ sessionMetadata[last.session][1].createdAt < last.time

(* C35: the alarm handler on an instance whose metadata is not loaded does *)
(* not initialize the actor, reads no durable metadata, forwards nothing   *)
(* and writes no plan, whatever the durable slot holds, and it leaves the  *)
(* next trigger set to the time of the run plus 300 seconds.               *)
C35_AlarmOnUnloaded ==
    [][(Starts("alarm") /\ ~Loaded(last'.session)) =>
          LET s == last'.session
          IN  /\ sessionMetadata'[s] = <<>>
              /\ last'.reads = 0
              /\ last'.forwards = 0
              /\ last'.planPuts = 0
              /\ planStore' = planStore
              /\ alarmTime'[s] = <<now + 300000>>]_vars

(* C36: savePlan changes planId and lastSaved only after the plan store    *)
(* has taken the write.  Up to the write nothing of the metadata or of the *)
(* durable slot changes; when the write raises an error, savePlan throws   *)
(* it and the metadata, the durable slot and the plan store are as before. *)
C36_SaveFailureKeepsMetadata ==
    [][/\ Starts("savePlan") =>
              LET s == last'.session
              IN  /\ storage' = storage
                  /\ planStore' = planStore
                  /\ Durable(sessionMetadata'[s][1]) = Durable(Meta(s))
       /\ \A s \in Sessions : (SaveWrites(s) /\ ~last'.planPutOk) =>
              /\ last'.outcome = "throw"
              /\ last'.error = "PlanStoreError"
              /\ sessionMetadata' = sessionMetadata
              /\ storage' = storage
              /\ planStore' = planStore]_vars

C36_Witness ==
    /\ last.op = "savePlan"
    /\ ~last.planPutOk
    /\ last.outcome = "throw"
    /\ last.planId = "p2"
    /\ sessionMetadata[last.session][1].planId = "p1"
    /\ storage[last.session] # <<>>
    /\ storage[last.session][1].planId = "p1"
    /\ planStore[PlanKey("p2")] = <<>>

(* C38: a plan once saved stays in the plan store and holds the state of   *)
(* the latest save that returned, whichever session made it; loadPlan of a *)
(* stored plan, in any session, does not raise PlanNotFound and forwards   *)
(* one LOAD_PROJECT command that carries the stored state.                 *)
C38_SaveThenLoad ==
    [][/\ \A p \in Plans :
              /\ planStore[PlanKey(p)] # <<>> => planStore'[PlanKey(p)] # <<>>
              /\ planStore'[PlanKey(p)] # planStore[PlanKey(p)] =>
                    /\ \E s \in Sessions : SaveWrites(s)
                    /\ last'.planId = p
                    /\ last'.outcome = "return"
       /\ \A s \in Sessions : (SaveWrites(s) /\ last'.outcome = "return") =>
              /\ planStore'[PlanKey(last'.planId)] # <<>>
              /\ planStore'[PlanKey(last'.planId)][1].body =
                     stringify(last'.resp.data)
       /\ (Starts("loadPlan") /\ planStore[PlanKey(last'.planId)] # <<>>) =>
              /\ last'.error # "PlanNotFound:" \o last'.planId
              /\ last'.forwards = 1
              /\ \E st \in States :
                    /\ planStore[PlanKey(last'.planId)][1].body = stringify(st)
                    /\ last'.sent =
                           <<[path |-> "/command",
                              body |-> CommandBody("LOAD_PROJECT", st)]>>]_vars

C38_Witness ==
    /\ last.op = "loadPlan"
    /\ last.session = "B"
    /\ last.outcome = "return"
    /\ last.planId = "p2"
    /\ planStore[PlanKey("p2")] # <<>>
    /\ planStore[PlanKey("p2")][1].sessionId = "A"
    /\ planStore[PlanKey("p2")][1].body = stringify("s2")
    /\ last.sent = <<[path |-> "/command",
                      body |-> CommandBody("LOAD_PROJECT", "s2")]>>

(* C39: no trigger is pending on a new actor, and only a run of the alarm  *)
(* handler changes the trigger of a session: no other operation, and not   *)
(* the construction of an instance, schedules one.                         *)
C39_OnlyAlarmSchedules ==
    /\ \A s \in Sessions : alarmTime[s] = <<>>
    /\ [][\A s \in Sessions : alarmTime'[s] # alarmTime[s] =>
             Starts("alarm") /\ last'.session = s]_vars

C39_Witness ==
    /\ last.op = "executeCommand"
    /\ last.resp.success
    /\ AutosaveDue(last.session)
    /\ alarmTime[last.session] = <<>>
    /\ now = 3

(* C40: planId changes only in savePlan and loadPlan and never back to     *)
(* null; the autosave condition, once true on an instance, stays true on   *)
(* it; and every run of the alarm handler under that condition attempts a  *)
(* save, which begins by asking the container for its state.               *)
C40_AutosaveStable ==
    [][/\ \A s \in Sessions :
              /\ Meta(s)'.planId # Meta(s).planId =>
                    /\ last'.op \in {"savePlan", "loadPlan"}
                    /\ last'.session = s
                    /\ Meta(s)'.planId # NoPlan
              /\ (AutosaveDue(s) /\ ~(Starts("constructor") /\ last'.session = s))
                    => AutosaveDue(s)'
       /\ (Starts("alarm") /\ AutosaveDue(last'.session)) =>
              /\ last'.forwards = 1
              /\ last'.sent = <<[path |-> "/state", body |-> NoBody]>>]_vars

(* C37: when an API key is configured, a request that is neither a CORS    *)
(* preflight nor the health check and whose Authorization header is not    *)
(* "Bearer " followed by exactly the configured key is answered 401, and   *)
(* the gateway neither obtains nor calls a session actor for it.           *)
C37_UnauthorizedRejected ==
    (/\ gatewayCall # <<>> /\ gatewayCall[1].done
     /\ gatewayCall[1].env.WORKER_API_KEY = <<Key1>>
     /\ gatewayCall[1].req.method # "OPTIONS"
     /\ gatewayCall[1].req.path \notin {"/health", "/"}
     /\ gatewayCall[1].req.authorization # <<Bearer \o Key1>>) =>
        /\ gatewayCall[1].outcome = "return"
        /\ gatewayCall[1].status = 401
        /\ gatewayCall[1].gets = 0
        /\ gatewayCall[1].fetches = 0

C37_Witness ==
    /\ gatewayCall # <<>>
    /\ gatewayCall[1].done
    /\ gatewayCall[1].env.WORKER_API_KEY = <<Key1>>
    /\ gatewayCall[1].req.method = "POST"
    /\ gatewayCall[1].req.path = "/command"
    /\ gatewayCall[1].req.authorization = <<Bearer \o Key2>>
    /\ gatewayCall[1].req.bodyOk
    /\ gatewayCall[1].req.sessionId # <<>>
    /\ gatewayCall[1].req.command # <<>>
    /\ gatewayCall[1].answer = Json(TRUE, "result")
    /\ gatewayCall[1].status = 401
    /\ gatewayCall[1].fetches = 0

=============================================================================
